---- MODULE Spec2Model ----
(***************************************************************************)
(* A model of the dependency-graph dashboard core: GraphBuilder            *)
(* (src/src/graph_builder.py), the tier mapping of LayoutBuilder           *)
(* (src/src/layout.py) and the graph callback of CallbackRegistrar         *)
(* (src/src/callbacks.py).                                                 *)
(*                                                                         *)
(* Conventions.                                                            *)
(*  - Python strings that the code inspects character by character         *)
(*    (domain names) are sequences of one-character strings; ids, colours  *)
(*    and sentinels are TLA+ strings.  Python None is the string "None".   *)
(*  - Lengths and coordinates are fixed-point integers in units of 1e-4    *)
(*    (0.7 is 7000); opacities are in tenths (1.0 is 10, 0.2 is 2);        *)
(*    maturities are in tenths (1.5 is 15).                                *)
(*  - A Python dict whose keys the code iterates is a sequence of keys in  *)
(*    insertion order plus a function on them.                             *)
(*  - A raised exception is a record naming it; NoError means no exception. *)
(*                                                                         *)
(* Specifications.                                                         *)
(*  - Spec: one build_figure call, direct or through update_graph, on a    *)
(*    constructed builder, over the tables of the model.                   *)
(*  - SpecSessions: repeated build_figure calls of two requests, their     *)
(*    steps interleaved, with the wall clock.                              *)
(*  - SpecLoad: LayoutBuilder.__init__ and the first figure.               *)
(*  - SpecWrap: the label wrapper on bounded texts.                        *)
(*  - SpecTables: LayoutBuilder.__init__ and the first figure on tables    *)
(*    with long names and crowded columns.                                 *)
(*  - SpecUI: the events that fire sync_selection, on the page as loaded.  *)
(***************************************************************************)
EXTENDS Integers, Sequences, FiniteSets, TLC

VARIABLES
    nodes_df,          \* GraphBuilder.nodes_df: the domain table, a sequence of rows
    edges_df,          \* GraphBuilder.edges_df: the dependency table, a sequence of rows
    node_dimensions,   \* GraphBuilder.node_dimensions: id -> (width, height, wrapped label)
    call,              \* the arguments of the last build_figure call, or "None"
    fig,               \* what the last build_figure call computed and returned, or "None"
    inputs,            \* the Input values update_graph last fired with
    builder,           \* how far LayoutBuilder.__init__ has got, and what it raised
    clock,             \* time.time() in milliseconds
    frames,            \* request -> the locals of its build_figure call and its position
    history,           \* what the calls so far returned (revision, positions seen)
    label,             \* a text handed to the label wrapper, and what it returned
    ui                 \* the component properties sync_selection reads and writes

vars == <<nodes_df, edges_df, node_dimensions, call, fig, inputs, builder, clock,
          frames, history, label, ui>>

None == "None"

(***************************************************************************)
(* Small sequence helpers (Python list idioms).                            *)
(***************************************************************************)
Range(s) == {s[i] : i \in DOMAIN s}

Contains(s, x) == \E i \in DOMAIN s : s[i] = x

\* list.append(x) only when x is not yet in the list (dict key insertion)
AppendNew(s, x) == IF Contains(s, x) THEN s ELSE Append(s, x)

\* s[:k] of Python, for k >= 0
Prefix(s, k) == SubSeq(s, 1, IF k < Len(s) THEN k ELSE Len(s))

\* s[k:] of Python, for k >= 0
Suffix(s, k) == SubSeq(s, k + 1, Len(s))

Max2(a, b) == IF a >= b THEN a ELSE b

Min2(a, b) == IF a <= b THEN a ELSE b

RECURSIVE Concat(_)
\* the concatenation of a sequence of sequences
Concat(ss) == IF ss = <<>> THEN <<>> ELSE Head(ss) \o Concat(Tail(ss))

(***************************************************************************)
(* Label wrapper: GraphBuilder._wrap_label_intelligently.                  *)
(***************************************************************************)
BR == <<"<", "b", "r", ">">>

\* the index of the first occurrence of character c in s, or Len(s) + 1
FirstIndex(s, c) ==
    IF \E i \in DOMAIN s : s[i] = c
    THEN CHOOSE i \in DOMAIN s : s[i] = c /\ \A j \in 1..(i - 1) : s[j] # c
    ELSE Len(s) + 1

RECURSIVE str_split(_)
\* str.split(): the maximal runs of non-blank characters
str_split(text) ==
    IF text = <<>> THEN <<>>
    ELSE IF Head(text) = " " THEN str_split(Tail(text))
    ELSE LET n == FirstIndex(text, " ")
         IN  <<SubSeq(text, 1, n - 1)>> \o str_split(Suffix(text, n - 1))

\* "<br>".join(lines)
RECURSIVE br_join(_)
br_join(lines) ==
    IF lines = <<>> THEN <<>>
    ELSE IF Len(lines) = 1 THEN lines[1]
    ELSE lines[1] \o BR \o br_join(Tail(lines))

\* whether s starts with the characters of p
StartsWith(s, p) == Len(s) >= Len(p) /\ SubSeq(s, 1, Len(p)) = p

RECURSIVE br_split_from(_, _)
\* str.split("<br>"), cur being the characters of the piece read so far
br_split_from(text, cur) ==
    IF text = <<>> THEN <<cur>>
    ELSE IF StartsWith(text, BR)
         THEN <<cur>> \o br_split_from(Suffix(text, Len(BR)), <<>>)
         ELSE br_split_from(Tail(text), Append(cur, Head(text)))

br_split(text) == br_split_from(text, <<>>)

\* target_chars one short of the length for a short text
target_chars_of_off_by_one(text) ==
    IF Len(text) <= 15 THEN Len(text) - 1
    ELSE IF Len(text) <= 30 THEN 16
    ELSE 18

\* target_chars of the wrapper (lines 95-101)
target_chars_of(text) ==
    IF Len(text) <= 15 THEN Len(text)
    ELSE IF Len(text) <= 30 THEN 16
    ELSE 18

RECURSIVE wrap_words(_, _, _, _)
\* the loop over the words (lines 106-133); returns lines and current_line
wrap_words(words, target_chars, lines, current_line) ==
    IF words = <<>> THEN [lines |-> lines, current_line |-> current_line]
    ELSE
      LET word == Head(words)
          rest == Tail(words)
          test_line == current_line
                       \o (IF current_line # <<>> THEN <<" ">> ELSE <<>>)
                       \o word
          forced == wrap_words(rest, target_chars,
                               Append(lines, Append(Prefix(word, target_chars - 1), "-")),
                               Suffix(word, target_chars - 1))
      IN
      IF Len(test_line) <= target_chars
      THEN wrap_words(rest, target_chars, lines, test_line)
      ELSE IF current_line # <<>>
      THEN wrap_words(rest, target_chars, Append(lines, current_line), word)
      ELSE IF Len(word) > target_chars
      THEN IF Contains(word, "-")
           THEN LET h == FirstIndex(word, "-")
                    part0 == SubSeq(word, 1, h - 1)
                    part1 == Suffix(word, h)
                IN  IF Len(part0) <= target_chars - 1
                    THEN wrap_words(rest, target_chars,
                                    Append(lines, Append(part0, "-")), part1)
                    ELSE forced
           ELSE forced
      ELSE wrap_words(rest, target_chars, lines, word)

\* the wrapper without its last step: the line being filled is never appended
_wrap_label_intelligently_drops_last_line(text) ==
    IF text = <<>> \/ str_split(text) = <<>>
    THEN [text |-> <<>>, line_count |-> 1]
    ELSE
      LET r == wrap_words(str_split(text), target_chars_of(text), <<>>, <<>>)
          lines == IF r.lines = <<>> THEN << <<>> >> ELSE r.lines
      IN  [text |-> br_join(lines), line_count |-> Len(lines)]

\* _wrap_label_intelligently(text): the wrapped text and the line count
_wrap_label_intelligently(text) ==
    IF text = <<>> \/ str_split(text) = <<>>
    THEN [text |-> <<>>, line_count |-> 1]
    ELSE
      LET r == wrap_words(str_split(text), target_chars_of(text), <<>>, <<>>)
          lines0 == IF r.current_line # <<>>
                    THEN Append(r.lines, r.current_line) ELSE r.lines
          lines == IF lines0 = <<>> THEN << <<>> >> ELSE lines0
      IN  [text |-> br_join(lines), line_count |-> Len(lines)]

(***************************************************************************)
(* Program constants.                                                      *)
(***************************************************************************)
x_spacing == 34000

local_y_spacing == 7000

tier_vertical_gap == 6000

min_gap == 1500

base_height == 1800

line_height == 1200

char_width == 700

padding == 2500

min_column_width == 8000

max_column_width == 16000

default_column_width == 9000

max_attempts == 15

OpacityFull == 10

OpacityDim == 2

\* sorted(TIER_BAND_COLORS): the maturities that have a band, ascending
TIER_BAND_COLORS == <<10, 15, 20>>

\* the discrete maturity levels of the data model
Maturities == {10, 15, 20, 30, 40}

\* NaN, the X_GROUP of an unmapped TIER_GROUP: it equals nothing, itself included,
\* so every comparison with it is written out as false
NaN == -1

\* tier_map of LayoutBuilder._apply_tier_mapping; Series.map gives NaN elsewhere
tier_map(tier_group) ==
    CASE tier_group = "Foundational" -> 1
      [] tier_group = "Tier 1 Dependency" -> 2
      [] tier_group = "Tier 2 Dependency" -> 3
      [] tier_group = "Compilatory" -> 4
      [] OTHER -> NaN

\* LayoutBuilder._apply_tier_mapping: the X_GROUP column added to the table
_apply_tier_mapping(df) ==
    [i \in DOMAIN df |->
        [DOMAIN_ID |-> df[i].DOMAIN_ID,
         DOMAIN_NAME |-> df[i].DOMAIN_NAME,
         TIER_GROUP |-> df[i].TIER_GROUP,
         CURRENT_MATURITY |-> df[i].CURRENT_MATURITY,
         BORDER_HEX |-> df[i].BORDER_HEX,
         X_GROUP |-> tier_map(df[i].TIER_GROUP)]]

\* the ids of a domain table
IdsOf(df) == {df[i].DOMAIN_ID : i \in DOMAIN df}

\* the row of a domain id (ids are unique in the table)
RowOf(df, id) == df[CHOOSE i \in DOMAIN df : df[i].DOMAIN_ID = id]

(***************************************************************************)
(* Column widths and node dimensions.                                      *)
(***************************************************************************)
\* the longest DOMAIN_NAME of a column, the first one among equals (lines 151-154)
longest_name_of(df, x_group) ==
    LET idx == {i \in DOMAIN df : x_group # NaN /\ df[i].X_GROUP = x_group}
    IN  IF idx = {} THEN <<>>
        ELSE LET m == CHOOSE i \in idx :
                        /\ \A j \in idx : Len(df[j].DOMAIN_NAME) <= Len(df[i].DOMAIN_NAME)
                        /\ \A j \in idx : j < i =>
                                Len(df[j].DOMAIN_NAME) < Len(df[i].DOMAIN_NAME)
             IN  df[m].DOMAIN_NAME

\* max(len(line) for line in lines) of a wrapped text
max_line_length_of(wrapped) ==
    LET lines == br_split(wrapped)
    IN  CHOOSE n \in {Len(lines[i]) : i \in DOMAIN lines} :
            \A i \in DOMAIN lines : Len(lines[i]) <= n

\* the width of one column without the cap at max_column_width
column_width_of_uncapped(df, x_group) ==
    LET longest_name == longest_name_of(df, x_group)
    IN  IF longest_name # <<>>
        THEN Max2(min_column_width,
                  max_line_length_of(_wrap_label_intelligently(longest_name).text)
                      * char_width + padding)
        ELSE default_column_width

\* the width of one column (lines 157-176)
column_width_of(df, x_group) ==
    LET longest_name == longest_name_of(df, x_group)
    IN  IF longest_name # <<>>
        THEN Min2(Max2(min_column_width,
                       max_line_length_of(_wrap_label_intelligently(longest_name).text)
                           * char_width + padding),
                  max_column_width)
        ELSE default_column_width

\* _calculate_optimal_column_widths: a NaN key is stored but can never be looked
\* up again (NaN equals nothing), so the dict is a function on the other keys
_calculate_optimal_column_widths(df) ==
    [x_group \in {df[i].X_GROUP : i \in DOMAIN df} \ {NaN} |-> column_width_of(df, x_group)]

\* _precalculate_node_dimensions: id -> (width, height, wrapped label), or the
\* KeyError of column_widths[x_group] for a row whose X_GROUP is NaN
_precalculate_node_dimensions(df) ==
    LET column_widths == _calculate_optimal_column_widths(df)
    IN  IF \E i \in DOMAIN df : df[i].X_GROUP \notin DOMAIN column_widths
        THEN "KeyError: nan"
        ELSE [id \in IdsOf(df) |->
                LET row == RowOf(df, id)
                    w == _wrap_label_intelligently(row.DOMAIN_NAME)
                IN  [width |-> column_widths[row.X_GROUP],
                     height |-> base_height + w.line_count * line_height,
                     wrapped_label |-> w.text,
                     line_count |-> w.line_count]]

(***************************************************************************)
(* Position assignment: GraphBuilder._assign_stacked_positions.            *)
(***************************************************************************)
\* the characters of the model in code-point order
Alphabet ==
    <<" ", "-", "<", ">",
      "A", "B", "C", "D", "E", "F", "G", "H", "I", "J", "K", "L", "M",
      "N", "O", "P", "Q", "R", "S", "T", "U", "V", "W", "X", "Y", "Z",
      "a", "b", "c", "d", "e", "f", "g", "h", "i", "j", "k", "l", "m",
      "n", "o", "p", "q", "r", "s", "t", "u", "v", "w", "x", "y", "z">>

CodePoint(c) == CHOOSE i \in DOMAIN Alphabet : Alphabet[i] = c

RECURSIVE str_lt(_, _)
\* a < b on Python strings
str_lt(a, b) ==
    IF b = <<>> THEN FALSE
    ELSE IF a = <<>> THEN TRUE
    ELSE IF Head(a) = Head(b) THEN str_lt(Tail(a), Tail(b))
    ELSE CodePoint(Head(a)) < CodePoint(Head(b))

RECURSIVE insert_by_name(_, _)
\* a row put into a list sorted by DOMAIN_NAME, after the rows that are not greater
insert_by_name(sorted, row) ==
    IF sorted = <<>> THEN <<row>>
    ELSE IF str_lt(row.DOMAIN_NAME, Head(sorted).DOMAIN_NAME)
         THEN <<row>> \o sorted
         ELSE <<Head(sorted)>> \o insert_by_name(Tail(sorted), row)

RECURSIVE sort_by_name(_)
\* group.sort_values("DOMAIN_NAME"); rows with equal names keep their table order,
\* as the sort does on the short groups of a table
sort_by_name(rows) ==
    IF rows = <<>> THEN <<>>
    ELSE insert_by_name(sort_by_name(SubSeq(rows, 1, Len(rows) - 1)), rows[Len(rows)])

RECURSIVE sorted_seq(_)
\* a finite set of integers as an ascending sequence
sorted_seq(S) ==
    IF S = {} THEN <<>>
    ELSE LET m == CHOOSE x \in S : \A y \in S : x <= y
         IN  <<m>> \o sorted_seq(S \ {m})

RECURSIVE bucket_rows(_, _, _)
\* the rows of a (tier, x_group) bucket, in table order (lines 244-246)
bucket_rows(df, tier, x_group) ==
    IF df = <<>> THEN <<>>
    ELSE (IF Head(df).CURRENT_MATURITY = tier /\ Head(df).X_GROUP = x_group
          THEN <<Head(df)>> ELSE <<>>)
         \o bucket_rows(Tail(df), tier, x_group)

\* x / 2 rounded toward zero
half(x) == IF x >= 0 THEN x \div 2 ELSE -((-x) \div 2)

\* _calculate_tier_offsets: tier -> idx * tier_vertical_gap * 6
_calculate_tier_offsets ==
    [idx \in DOMAIN TIER_BAND_COLORS |-> (idx - 1) * tier_vertical_gap * 6]

\* _calculate_y_grid: count points y_spacing apart, centred on 0
_calculate_y_grid(count, y_spacing) ==
    IF count = 1 THEN <<0>>
    ELSE [i \in 1..count |-> half((2 * (i - 1) - (count - 1)) * y_spacing)]

\* _has_intelligent_collisions: a node of the batch against the nodes already
\* placed in the same x-group
_has_intelligent_collisions(y_positions, heights, used_coords, current_x_group) ==
    \E i \in DOMAIN y_positions :
        LET node_top == y_positions[i] + heights[i] \div 2
            node_bottom == y_positions[i] - heights[i] \div 2
        IN  \E e \in used_coords :
                /\ e.x_group = current_x_group
                /\ LET existing_top == e.y + e.height \div 2
                       existing_bottom == e.y - e.height \div 2
                   IN  ~(\/ node_bottom > existing_top + min_gap
                         \/ node_top < existing_bottom - min_gap)

\* y_spacing *= 1.5
grow_spacing_by_half(y_spacing) == (y_spacing * 150) \div 100

\* y_spacing *= 1.08
grow_spacing(y_spacing) == (y_spacing * 108) \div 100

RECURSIVE find_y_grid(_, _, _, _, _, _, _)
\* the retry loop (lines 258-266): the grid of the first attempt without a
\* collision, or of the last attempt
find_y_grid(attempt, count, y_spacing, tier_offset, heights, used_coords, x_group) ==
    LET y_grid == _calculate_y_grid(count, y_spacing)
        y_positions == [i \in 1..count |-> tier_offset + y_grid[i]]
    IN  IF \/ ~_has_intelligent_collisions(y_positions, heights, used_coords, x_group)
           \/ attempt = max_attempts
        THEN y_grid
        ELSE find_y_grid(attempt + 1, count, grow_spacing(y_spacing), tier_offset,
                         heights, used_coords, x_group)

\* used_y_coords[(x_group, y)] = height
put_used(used_coords, x_group, y, height) ==
    {e \in used_coords : ~(e.x_group = x_group /\ e.y = y)}
        \cup {[x_group |-> x_group, y |-> y, height |-> height]}

RECURSIVE commit_bucket(_, _, _, _, _, _)
\* the loop that assigns and tracks the positions of a bucket (lines 269-275)
commit_bucket(st, rows, y_grid, heights, x_group, tier_offset) ==
    IF rows = <<>> THEN st
    ELSE LET id == Head(rows).DOMAIN_ID
             x == x_group * x_spacing
             y == tier_offset + Head(y_grid)
             positions == [n \in DOMAIN st.positions \cup {id} |->
                              IF n = id THEN <<x, y>> ELSE st.positions[n]]
         IN  commit_bucket([positions |-> positions,
                            used_y_coords |-> put_used(st.used_y_coords, x_group, y,
                                                       Head(heights))],
                           Tail(rows), Tail(y_grid), Tail(heights), x_group, tier_offset)

\* one (tier, x_group) bucket of _assign_stacked_positions (lines 247-275)
place_bucket(st, df, dims, tier_idx, x_group) ==
    LET tier == TIER_BAND_COLORS[tier_idx]
        sorted_group == sort_by_name(bucket_rows(df, tier, x_group))
        count == Len(sorted_group)
        group_heights == [i \in 1..count |-> dims[sorted_group[i].DOMAIN_ID].height]
        tier_offset == _calculate_tier_offsets[tier_idx]
        y_grid == find_y_grid(1, count, local_y_spacing, tier_offset, group_heights,
                              st.used_y_coords, x_group)
    IN  commit_bucket(st, sorted_group, y_grid, group_heights, x_group, tier_offset)

\* the buckets in the order the loops visit them: tiers ascending, and within a
\* tier the x-groups of its rows ascending (groupby sorts its keys and drops NaN)
buckets_of(df) ==
    Concat([tier_idx \in DOMAIN TIER_BAND_COLORS |->
              LET groups == {df[i].X_GROUP : i \in
                               {j \in DOMAIN df :
                                   df[j].CURRENT_MATURITY = TIER_BAND_COLORS[tier_idx]}}
                            \ {NaN}
                  gs == sorted_seq(groups)
              IN  [k \in DOMAIN gs |-> <<tier_idx, gs[k]>>]])

RECURSIVE place_buckets(_, _, _, _)
place_buckets(st, df, dims, buckets) ==
    IF buckets = <<>> THEN st
    ELSE place_buckets(place_bucket(st, df, dims, Head(buckets)[1], Head(buckets)[2]),
                       df, dims, Tail(buckets))

\* _assign_stacked_positions with used_y_coords kept between calls: a call starts
\* from the coordinates the earlier calls have used
_assign_stacked_positions_keeps_used(df, dims) ==
    LET used == UNION {{[x_group |-> p[id][1] \div x_spacing, y |-> p[id][2],
                         height |-> dims[id].height] : id \in DOMAIN p} :
                       p \in history.positions_seen}
    IN  place_buckets([positions |-> <<>>, used_y_coords |-> used], df, dims,
                      buckets_of(df)).positions

\* _assign_stacked_positions: id -> (x, y), for the rows that fall in a bucket
_assign_stacked_positions(df, dims) ==
    place_buckets([positions |-> <<>>, used_y_coords |-> {}], df, dims,
                  buckets_of(df)).positions

(***************************************************************************)
(* The graph: GraphBuilder._build_networkx_graph on an nx.DiGraph.         *)
(*   nodes  the node ids in insertion order                                *)
(*   attr   id -> the node's attribute dict; keys is the set of its keys   *)
(*          (a field whose key is absent holds a filler that is never read)*)
(*   succ   id -> its successors in insertion order (G.succ / G.adj)       *)
(*   pred   id -> its predecessors in insertion order (G.pred)             *)
(*   edata  (u, v) -> the attribute dict of the edge                       *)
(***************************************************************************)
NoError == [type |-> "None", key |-> "None", at |-> "None"]

KeyError(key, at) == [type |-> "KeyError", key |-> key, at |-> at]

EmptyGraph == [nodes |-> <<>>, attr |-> <<>>, succ |-> <<>>, pred |-> <<>>, edata |-> <<>>]

\* the attribute dict of a node that add_edge created: no keys at all
NoAttrs ==
    [keys |-> {}, label |-> <<>>, wrapped_label |-> <<>>, border |-> "None",
     original_border |-> "None", pos |-> <<0, 0>>, width |-> 0, height |-> 0,
     glow |-> FALSE, opacity |-> 0]

\* the attribute dict G.add_node writes for a row (lines 324-335)
RowAttrs(row, dims, positions) ==
    [keys |-> {"label", "wrapped_label", "category", "color", "border",
               "original_border", "pos", "width", "height"},
     label |-> row.DOMAIN_NAME,
     wrapped_label |-> dims[row.DOMAIN_ID].wrapped_label,
     border |-> row.BORDER_HEX,
     original_border |-> row.BORDER_HEX,
     pos |-> positions[row.DOMAIN_ID],
     width |-> dims[row.DOMAIN_ID].width,
     height |-> dims[row.DOMAIN_ID].height,
     glow |-> FALSE,
     opacity |-> 0]

\* G.add_node(id, **attrs) for a new id
add_node(G, id, attrs) ==
    [nodes |-> AppendNew(G.nodes, id),
     attr |-> [n \in DOMAIN G.attr \cup {id} |-> IF n = id THEN attrs ELSE G.attr[n]],
     succ |-> [n \in DOMAIN G.succ \cup {id} |->
                  IF n \in DOMAIN G.succ THEN G.succ[n] ELSE <<>>],
     pred |-> [n \in DOMAIN G.pred \cup {id} |->
                  IF n \in DOMAIN G.pred THEN G.pred[n] ELSE <<>>],
     edata |-> G.edata]

\* the node a DiGraph creates for an edge endpoint it does not know yet
ensure_node(G, id) == IF Contains(G.nodes, id) THEN G ELSE add_node(G, id, NoAttrs)

\* G.add_edge(u, v, **data): the endpoints are created when missing; an edge
\* (u, v) that exists keeps its place and has its attributes overwritten
add_edge(G, u, v, data) ==
    LET G1 == ensure_node(ensure_node(G, u), v)
    IN  [nodes |-> G1.nodes,
         attr |-> G1.attr,
         succ |-> [G1.succ EXCEPT ![u] = AppendNew(@, v)],
         pred |-> [G1.pred EXCEPT ![v] = AppendNew(@, u)],
         edata |-> [e \in DOMAIN G1.edata \cup {<<u, v>>} |->
                       IF e = <<u, v>> THEN data ELSE G1.edata[e]]]

RECURSIVE add_nodes(_, _, _, _)
\* the loop over nodes_df (lines 322-335): stops at the first row without a position
add_nodes(G, rows, dims, positions) ==
    IF rows = <<>> THEN [raised |-> NoError, G |-> G]
    ELSE IF Head(rows).DOMAIN_ID \notin DOMAIN positions
         THEN [raised |-> KeyError(Head(rows).DOMAIN_ID, "_build_networkx_graph"), G |-> G]
         ELSE add_nodes(add_node(G, Head(rows).DOMAIN_ID,
                                 RowAttrs(Head(rows), dims, positions)),
                        Tail(rows), dims, positions)

RECURSIVE add_edges(_, _)
\* the loop over edges_df (lines 338-345)
add_edges(G, rows) ==
    IF rows = <<>> THEN G
    ELSE add_edges(add_edge(G, Head(rows).SOURCE_DOMAIN_ID, Head(rows).TARGET_DOMAIN_ID,
                            [weight |-> Head(rows).WEIGHT, tier |-> Head(rows).TIER,
                             description |-> Head(rows).DESCRIPTION]),
                   Tail(rows))

\* _build_networkx_graph: the graph, or the KeyError of positions[...]
_build_networkx_graph(df, edges, dims, positions) ==
    LET r == add_nodes(EmptyGraph, df, dims, positions)
    IN  IF r.raised # NoError THEN r
        ELSE [raised |-> NoError, G |-> add_edges(r.G, edges)]

\* G.out_edges(node) as (u, v) pairs
out_edges(G, node) == [i \in DOMAIN G.succ[node] |-> <<node, G.succ[node][i]>>]

\* G.in_edges(node) as (u, v) pairs
in_edges(G, node) == [i \in DOMAIN G.pred[node] |-> <<G.pred[node][i], node>>]

\* list(G.edges(data=True)): by source in node order, then by successor
all_edges(G) ==
    Concat([i \in DOMAIN G.nodes |->
              [k \in DOMAIN G.succ[G.nodes[i]] |->
                  <<G.nodes[i], G.succ[G.nodes[i]][k],
                    G.edata[<<G.nodes[i], G.succ[G.nodes[i]][k]>>]>>]])

(***************************************************************************)
(* Interaction state resolver.                                             *)
(***************************************************************************)
\* the truth value of an Optional[str] argument
Truthy(x) == x # None

NodeSet(G) == Range(G.nodes)

\* _determine_interaction_state dimming in interactive mode as soon as a node is
\* selected or hovered
_determine_interaction_state_hover_dims(G, selected, hovered0, mode) ==
    LET hovered == IF hovered0 = "RESET" THEN None ELSE hovered0
        sel_in_graph == Truthy(selected) /\ selected \in NodeSet(G)
        highlight_nodes ==
            (IF sel_in_graph THEN {selected} ELSE {})
            \cup (IF Truthy(hovered) /\ hovered # selected /\ hovered \in NodeSet(G)
                  THEN {hovered} ELSE {})
        secondary_nodes ==
            IF sel_in_graph
            THEN {e[2] : e \in Range(out_edges(G, selected))}
                 \cup {e[1] : e \in Range(in_edges(G, selected))}
            ELSE {}
        dim_nodes ==
            IF mode = "filter"
            THEN NodeSet(G) \ (highlight_nodes \cup secondary_nodes)
            ELSE IF mode = "interactive" /\ (Truthy(selected) \/ Truthy(hovered))
            THEN NodeSet(G) \ (highlight_nodes \cup secondary_nodes)
            ELSE {}
    IN  IF mode = "filter" /\ (selected = None \/ selected = "All")
        THEN [highlight_nodes |-> {}, secondary_nodes |-> {}, dim_nodes |-> {}]
        ELSE [highlight_nodes |-> highlight_nodes,
              secondary_nodes |-> secondary_nodes,
              dim_nodes |-> dim_nodes]

\* _determine_interaction_state taking only the successors of the selection as
\* secondary nodes
_determine_interaction_state_successors_only(G, selected, hovered0, mode) ==
    LET hovered == IF hovered0 = "RESET" THEN None ELSE hovered0
        sel_in_graph == Truthy(selected) /\ selected \in NodeSet(G)
        highlight_nodes ==
            (IF sel_in_graph THEN {selected} ELSE {})
            \cup (IF Truthy(hovered) /\ hovered # selected /\ hovered \in NodeSet(G)
                  THEN {hovered} ELSE {})
        secondary_nodes ==
            IF sel_in_graph
            THEN {e[2] : e \in Range(out_edges(G, selected))}
            ELSE {}
        dim_nodes ==
            IF mode = "filter"
            THEN NodeSet(G) \ (highlight_nodes \cup secondary_nodes)
            ELSE IF mode = "interactive" /\ Truthy(selected)
            THEN NodeSet(G) \ (highlight_nodes \cup secondary_nodes)
            ELSE {}
    IN  IF mode = "filter" /\ (selected = None \/ selected = "All")
        THEN [highlight_nodes |-> {}, secondary_nodes |-> {}, dim_nodes |-> {}]
        ELSE [highlight_nodes |-> highlight_nodes,
              secondary_nodes |-> secondary_nodes,
              dim_nodes |-> dim_nodes]

\* _determine_interaction_state: (highlight_nodes, secondary_nodes, dim_nodes)
\* the interaction state with the neighbours of the selection dimmed as well
_determine_interaction_state_dims_secondary(G, selected, hovered0, mode) ==
    LET hovered == IF hovered0 = "RESET" THEN None ELSE hovered0
        sel_in_graph == Truthy(selected) /\ selected \in NodeSet(G)
        highlight_nodes ==
            (IF sel_in_graph THEN {selected} ELSE {})
            \cup (IF Truthy(hovered) /\ hovered # selected /\ hovered \in NodeSet(G)
                  THEN {hovered} ELSE {})
        secondary_nodes ==
            IF sel_in_graph
            THEN {e[2] : e \in Range(out_edges(G, selected))}
                 \cup {e[1] : e \in Range(in_edges(G, selected))}
            ELSE {}
        dim_nodes ==
            IF mode = "filter" \/ (mode = "interactive" /\ Truthy(selected))
            THEN NodeSet(G) \ highlight_nodes
            ELSE {}
    IN  IF mode = "filter" /\ (selected = None \/ selected = "All")
        THEN [highlight_nodes |-> {}, secondary_nodes |-> {}, dim_nodes |-> {}]
        ELSE [highlight_nodes |-> highlight_nodes,
              secondary_nodes |-> secondary_nodes,
              dim_nodes |-> dim_nodes]

_determine_interaction_state(G, selected, hovered0, mode) ==
    LET hovered == IF hovered0 = "RESET" THEN None ELSE hovered0
        sel_in_graph == Truthy(selected) /\ selected \in NodeSet(G)
        highlight_nodes ==
            (IF sel_in_graph THEN {selected} ELSE {})
            \cup (IF Truthy(hovered) /\ hovered # selected /\ hovered \in NodeSet(G)
                  THEN {hovered} ELSE {})
        secondary_nodes ==
            IF sel_in_graph
            THEN {e[2] : e \in Range(out_edges(G, selected))}
                 \cup {e[1] : e \in Range(in_edges(G, selected))}
            ELSE {}
        dim_nodes ==
            IF mode = "filter"
            THEN NodeSet(G) \ (highlight_nodes \cup secondary_nodes)
            ELSE IF mode = "interactive" /\ Truthy(selected)
            THEN NodeSet(G) \ (highlight_nodes \cup secondary_nodes)
            ELSE {}
    IN  IF mode = "filter" /\ (selected = None \/ selected = "All")
        THEN [highlight_nodes |-> {}, secondary_nodes |-> {}, dim_nodes |-> {}]
        ELSE [highlight_nodes |-> highlight_nodes,
              secondary_nodes |-> secondary_nodes,
              dim_nodes |-> dim_nodes]

\* node_style with the hover border taking precedence over the selection border
node_style_hover_wins(attrs, node, selected, hovered, dim_nodes) ==
    LET border0 == attrs.original_border
        border1 == IF node = selected THEN "#000000" ELSE border0
        border2 == IF node = hovered THEN "#FFD700" ELSE border1
    IN  [glow |-> (node = hovered),
         opacity |-> IF node \in dim_nodes THEN OpacityDim ELSE OpacityFull,
         border |-> border2]

\* the style of one node (lines 453-473)
node_style(attrs, node, selected, hovered, dim_nodes) ==
    LET border0 == attrs.original_border
        border1 == IF node = selected THEN "#000000" ELSE border0
        border2 == IF node = hovered /\ node # selected THEN "#FFD700" ELSE border1
    IN  [glow |-> (node = hovered),
         opacity |-> IF node \in dim_nodes THEN OpacityDim ELSE OpacityFull,
         border |-> border2]

\* the style written into the node's attribute dict (lines 476-478)
styled_attrs(attrs, node, selected, hovered, dim_nodes) ==
    LET style == node_style(attrs, node, selected, hovered, dim_nodes)
    IN  [attrs EXCEPT !.keys = @ \cup {"glow", "opacity", "border"},
                      !.glow = style.glow,
                      !.opacity = style.opacity,
                      !.border = style.border]

\* _apply_node_styles: the nodes are styled in graph order; a node without the
\* key original_border raises KeyError and leaves the later nodes unstyled
_apply_node_styles(G, selected, hovered0, highlight_nodes, dim_nodes) ==
    LET hovered == IF hovered0 = "RESET" THEN None ELSE hovered0
        bad == {i \in DOMAIN G.nodes : "original_border" \notin G.attr[G.nodes[i]].keys}
        stop == IF bad = {} THEN Len(G.nodes) + 1
                ELSE CHOOSE i \in bad : \A j \in bad : i <= j
        done == {G.nodes[i] : i \in 1..(stop - 1)}
    IN  [raised |-> IF bad = {} THEN NoError
                    ELSE KeyError("original_border", "_apply_node_styles"),
         G |-> [G EXCEPT !.attr =
                   [n \in DOMAIN G.attr |->
                       IF n \in done
                       THEN styled_attrs(G.attr[n], n, selected, hovered, dim_nodes)
                       ELSE G.attr[n]]]]

\* _get_directional_edges with the two directions taken for each other
_get_directional_edges_swapped(G, node, directions) ==
    LET triple(e) == <<e[1], e[2], G.edata[e]>>
        ins == in_edges(G, node)
        outs == out_edges(G, node)
    IN  (IF "downstream" \in Range(directions)
         THEN [i \in DOMAIN ins |-> triple(ins[i])] ELSE <<>>)
        \o
        (IF "upstream" \in Range(directions)
         THEN [i \in DOMAIN outs |-> triple(outs[i])] ELSE <<>>)

\* _get_directional_edges: (u, v, data) triples, upstream ones first
_get_directional_edges(G, node, directions) ==
    LET triple(e) == <<e[1], e[2], G.edata[e]>>
        ins == in_edges(G, node)
        outs == out_edges(G, node)
    IN  (IF "upstream" \in Range(directions)
         THEN [i \in DOMAIN ins |-> triple(ins[i])] ELSE <<>>)
        \o
        (IF "downstream" \in Range(directions)
         THEN [i \in DOMAIN outs |-> triple(outs[i])] ELSE <<>>)

\* _determine_visible_elements without the loop that adds the edges' endpoints
_determine_visible_elements_no_endpoints(G, selected0, hovered, directions, mode) ==
    LET all_nodes == NodeSet(G)
        selected == IF selected0 = "All" THEN None ELSE selected0
    IN  IF mode \in {"filter", "interactive"}
        THEN IF Truthy(selected) /\ selected \in all_nodes
             THEN [visible_nodes |-> {selected},
                   visible_edges |-> _get_directional_edges(G, selected, directions)]
             ELSE [visible_nodes |-> all_nodes, visible_edges |-> all_edges(G)]
        ELSE [visible_nodes |-> {}, visible_edges |-> <<>>]

\* _determine_visible_elements whose interactive branch never narrows the view
_determine_visible_elements_interactive_all(G, selected0, hovered, directions, mode) ==
    LET all_nodes == NodeSet(G)
        selected == IF selected0 = "All" THEN None ELSE selected0
        focus_edges == _get_directional_edges(G, selected, directions)
    IN  IF mode = "filter" /\ Truthy(selected) /\ selected \in all_nodes
        THEN [visible_nodes |-> {selected}
                                 \cup {e[1] : e \in Range(focus_edges)}
                                 \cup {e[2] : e \in Range(focus_edges)},
              visible_edges |-> focus_edges]
        ELSE [visible_nodes |-> all_nodes, visible_edges |-> all_edges(G)]

\* _determine_visible_elements: (visible_nodes, visible_edges)
_determine_visible_elements(G, selected0, hovered, directions, mode) ==
    LET all_nodes == NodeSet(G)
        selected == IF selected0 = "All" THEN None ELSE selected0
        focus_edges == _get_directional_edges(G, selected, directions)
        focused == [visible_nodes |-> {selected}
                                      \cup {e[1] : e \in Range(focus_edges)}
                                      \cup {e[2] : e \in Range(focus_edges)},
                    visible_edges |-> focus_edges]
        everything == [visible_nodes |-> all_nodes, visible_edges |-> all_edges(G)]
    IN  IF mode = "filter"
        THEN IF Truthy(selected) /\ selected \in all_nodes THEN focused ELSE everything
        ELSE IF mode = "interactive"
        THEN IF Truthy(selected) /\ selected \in all_nodes THEN focused ELSE everything
        ELSE [visible_nodes |-> {}, visible_edges |-> <<>>]

(***************************************************************************)
(* Figure assembly: GraphBuilder.build_figure.  The scene keeps what is    *)
(* drawn per node and per edge; band, label and axis geometry is left out. *)
(***************************************************************************)
\* TIER_LABEL_MAP.get(int(tier), f"Tier {tier}")
tier_label_of(tier) ==
    CASE tier \in {1, 2} -> "Optimizer"
      [] tier = 3 -> "Partial Blocker"
      [] tier = 4 -> "Blocker"
      [] OTHER -> "Tier"

\* _create_edge_traces: one line trace per entry of visible_edges
_create_edge_traces(G, visible_edges) ==
    [i \in DOMAIN visible_edges |->
        [source |-> visible_edges[i][1],
         target |-> visible_edges[i][2],
         width |-> 3 * visible_edges[i][3].weight,
         tier_label |-> tier_label_of(visible_edges[i][3].tier),
         description |-> visible_edges[i][3].description]]

\* _create_node_shapes_and_annotations: the loop is over G.nodes(), whatever
\* visible_nodes holds; node names the node a shape is drawn for
_create_node_shapes_and_annotations(G, visible_nodes) ==
    [shapes |-> [i \in DOMAIN G.nodes |->
                    LET a == G.attr[G.nodes[i]]
                    IN  [node |-> G.nodes[i], pos |-> a.pos, width |-> a.width,
                         height |-> a.height, border |-> a.border,
                         opacity |-> a.opacity]],
     annotations |-> [i \in DOMAIN G.nodes |->
                    LET a == G.attr[G.nodes[i]]
                    IN  [node |-> G.nodes[i], pos |-> a.pos, text |-> a.wrapped_label,
                         opacity |-> a.opacity]]]

\* what a build that raised leaves behind: the exception and the graph so far
failed_build(raised, G) ==
    [built |-> TRUE, raised |-> raised, G |-> G,
     highlight_nodes |-> {}, secondary_nodes |-> {}, dim_nodes |-> {},
     visible_nodes |-> {}, visible_edges |-> <<>>,
     edge_traces |-> <<>>, node_shapes |-> <<>>, node_annotations |-> <<>>,
     customdata |-> <<>>]

NoFigure == [failed_build(NoError, EmptyGraph) EXCEPT !.built = FALSE]

\* build_figure(selected, directions, mode, hovered) on the builder's tables
build_figure(df, edges, dims, selected, directions, mode, hovered) ==
    LET positions == _assign_stacked_positions(df, dims)
        built == _build_networkx_graph(df, edges, dims, positions)
        state == _determine_interaction_state(built.G, selected, hovered, mode)
        styled == _apply_node_styles(built.G, selected, hovered,
                                     state.highlight_nodes, state.dim_nodes)
        visible == _determine_visible_elements(styled.G, selected, hovered,
                                               directions, mode)
        nodes == _create_node_shapes_and_annotations(styled.G, visible.visible_nodes)
    IN  IF built.raised # NoError THEN failed_build(built.raised, built.G)
        ELSE IF styled.raised # NoError THEN failed_build(styled.raised, styled.G)
        ELSE [built |-> TRUE, raised |-> NoError, G |-> styled.G,
              highlight_nodes |-> state.highlight_nodes,
              secondary_nodes |-> state.secondary_nodes,
              dim_nodes |-> state.dim_nodes,
              visible_nodes |-> visible.visible_nodes,
              visible_edges |-> visible.visible_edges,
              edge_traces |-> _create_edge_traces(styled.G, visible.visible_edges),
              node_shapes |-> nodes.shapes,
              node_annotations |-> nodes.annotations,
              customdata |-> styled.G.nodes]

(***************************************************************************)
(* The graph callback: CallbackRegistrar.update_graph.                     *)
(***************************************************************************)
\* _extract_hover_node_id: hover_data is the customdata of its first point, or None
_extract_hover_node_id(hover_data) ==
    IF hover_data \in {None, "__background__", "RESET"} THEN None ELSE hover_data

RECURSIVE keep_valid(_)
\* [d for d in directions if d in valid]
keep_valid(directions) ==
    IF directions = <<>> THEN <<>>
    ELSE (IF Head(directions) \in {"upstream", "downstream"}
          THEN <<Head(directions)>> ELSE <<>>) \o keep_valid(Tail(directions))

\* _validate_directions without the fallback for a list with no valid entry
_validate_directions_no_fallback(directions) ==
    keep_valid(IF directions = <<>> THEN <<"upstream", "downstream">> ELSE directions)

\* _validate_directions: directions is a list, the empty list standing for None too
_validate_directions(directions) ==
    LET valid == <<"upstream", "downstream">>
        kept == keep_valid(IF directions = <<>> THEN valid ELSE directions)
    IN  IF kept = <<>> THEN valid ELSE kept

(***************************************************************************)
(* The tables and inputs the model ranges over.                            *)
(***************************************************************************)
MaxEdges == 2

DomainOrder == <<"A", "B", "C">>

DomainIds == Range(DomainOrder)

\* an id that is no domain id
UnknownId == "Z"

DomainName(id) ==
    CASE id = "A" -> <<"D", "a", "t", "a">>
      [] id = "B" -> <<"C", "o", "r", "e", " ", "B", "a", "n", "k", "i", "n", "g", " ",
                       "P", "l", "a", "t", "f", "o", "r", "m">>
      [] OTHER -> <<"R", "i", "s", "k">>

DomainTier(id) ==
    CASE id = "B" -> "Tier 1 Dependency"
      [] OTHER -> "Foundational"

\* the domain tables: A at maturity 1.0, B at 1.5, C at any level of the data model
NodeTables ==
    {[i \in DOMAIN DomainOrder |->
        [DOMAIN_ID |-> DomainOrder[i],
         DOMAIN_NAME |-> DomainName(DomainOrder[i]),
         TIER_GROUP |-> DomainTier(DomainOrder[i]),
         CURRENT_MATURITY |-> IF DomainOrder[i] = "A" THEN 10
                              ELSE IF DomainOrder[i] = "B" THEN 15 ELSE mC,
         BORDER_HEX |-> "#333"]] : mC \in Maturities}

EdgeRow(u, v, weight, tier, description) ==
    [SOURCE_DOMAIN_ID |-> u, TARGET_DOMAIN_ID |-> v, WEIGHT |-> weight, TIER |-> tier,
     DESCRIPTION |-> description]

\* the dependency rows: a pair given twice with different attributes, its reverse,
\* a self-loop, an edge from a third domain, and a row with a dangling target
EdgeRows ==
    {EdgeRow("A", "B", 1, 1, "d1"), EdgeRow("A", "B", 2, 3, "d2"),
     EdgeRow("B", "A", 1, 2, "d3"), EdgeRow("A", "A", 1, 1, "d4"),
     EdgeRow("C", "A", 1, 4, "d5"), EdgeRow("A", UnknownId, 1, 1, "d6")}

EdgeTables == UNION {[1..n -> EdgeRows] : n \in 0..MaxEdges}

SelectedValues == {None, "All", "A", "B", UnknownId}

HoveredValues == {None, "RESET", "A", "C", UnknownId}

Modes == {"filter", "interactive"}

DirectionLists ==
    {<<>>, <<"upstream">>, <<"downstream">>, <<"upstream", "downstream">>}

\* what the stores and controls hand to update_graph
StoreValues == {None, "All", "A", UnknownId}

HoverData == {None, "__background__", "C"}

RawDirectionLists ==
    {<<>>, <<"upstream">>, <<"sideways">>, <<"downstream", "sideways">>}

NoCall == [made |-> FALSE, selected |-> None, directions |-> <<>>, mode |-> "filter",
           hovered |-> None]

\* update_graph has not fired
NoInputs == [fired |-> FALSE, selected_node |-> None, directions |-> <<>>,
             mode |-> "filter", hover_data |-> None]

\* LayoutBuilder.__init__ has run to its end
Constructed == [stage |-> "constructed", raised |-> NoError]

\* the requests that can be served at the same time
Sessions == {1, 2}

\* a request that has not called build_figure
IdleFrame ==
    [pc |-> "idle", selected |-> None, directions |-> <<>>, mode |-> "filter",
     hovered |-> None, prev_revision |-> -1, positions |-> <<>>, raised |-> NoError,
     G |-> EmptyGraph,
     state |-> [highlight_nodes |-> {}, secondary_nodes |-> {}, dim_nodes |-> {}],
     visible |-> [visible_nodes |-> {}, visible_edges |-> <<>>],
     datarevision |-> -1]

NoHistory == [returned_revision |-> -1, positions_seen |-> {}]

NoLabel == [wrapped |-> FALSE, text |-> <<>>, result |-> <<>>, line_count |-> 0]

\* the properties of the page as laid out (layout.py lines 193, 233-238, 270,
\* 294-303, 313-314), before any event; relayout_data is "autosize" for
\* {"autosize": True} and "other" for any other dict, click_data is the
\* customdata of the clicked point
NoEvents ==
    [drop_val |-> None, click_data |-> None, relayout_data |-> None, n_clicks |-> 0,
     mode |-> "interactive", selected_domain |-> "All", selected_node_store |-> None,
     triggered |-> None, since_reset |-> FALSE]

\* no request is being served, the clock stands at 0
SessionsIdle ==
    /\ clock = 0
    /\ frames = [s \in Sessions |-> IdleFrame]
    /\ history = NoHistory

Init ==
    /\ nodes_df \in {_apply_tier_mapping(df) : df \in NodeTables}
    /\ edges_df \in EdgeTables
    /\ node_dimensions = _precalculate_node_dimensions(nodes_df)
    /\ call = NoCall
    /\ fig = NoFigure
    /\ inputs = NoInputs
    /\ builder = Constructed
    /\ SessionsIdle
    /\ label = NoLabel
    /\ ui = NoEvents

\* a call of GraphBuilder.build_figure.  A build reads nodes_df, edges_df and
\* node_dimensions and writes none of them, so a behaviour follows one request
\* served by the constructed builder
BuildFigure(selected, directions, mode, hovered) ==
    /\ ~call.made
    /\ call' = [made |-> TRUE, selected |-> selected, directions |-> directions,
                mode |-> mode, hovered |-> hovered]
    /\ fig' = build_figure(nodes_df, edges_df, node_dimensions,
                           selected, directions, mode, hovered)
    /\ UNCHANGED <<nodes_df, edges_df, node_dimensions, builder, clock, frames,
                   history, label, ui>>

\* the callback update_graph(selected_node, directions, mode, hover_data)
UpdateGraph(selected_node, directions, mode, hover_data) ==
    /\ inputs' = [fired |-> TRUE, selected_node |-> selected_node,
                  directions |-> directions, mode |-> mode, hover_data |-> hover_data]
    /\ BuildFigure(IF selected_node \in {None, "All"} THEN None ELSE selected_node,
                   _validate_directions(directions), mode,
                   _extract_hover_node_id(hover_data))

Next ==
    \/ \E selected \in SelectedValues, directions \in DirectionLists,
          mode \in Modes, hovered \in HoveredValues :
            BuildFigure(selected, directions, mode, hovered) /\ UNCHANGED inputs
    \/ \E selected_node \in StoreValues, directions \in RawDirectionLists,
          mode \in Modes, hover_data \in HoverData :
            UpdateGraph(selected_node, directions, mode, hover_data)

Spec == Init /\ [][Next]_vars

(***************************************************************************)
(* Requests served side by side.  Each request runs build_figure on the    *)
(* one GraphBuilder of the application; a call keeps its locals (positions,*)
(* G, the interaction state, the visible elements) in its own frame, and   *)
(* its steps run interleaved with the steps of the other request.          *)
(***************************************************************************)
MaxClock == 1

\* the domain tables of the requests: C in the bucket of A, or a tier above
SessionNodeTables == {df \in NodeTables : df[3].CURRENT_MATURITY \in {10, 20}}

SessionEdges == <<EdgeRow("A", "B", 1, 1, "d1"), EdgeRow("C", "A", 1, 4, "d5")>>

\* the build_figure calls the requests make
SessionCalls ==
    {[selected |-> "A", directions |-> <<"upstream", "downstream">>,
      mode |-> "interactive", hovered |-> None],
     [selected |-> None, directions |-> <<"upstream", "downstream">>,
      mode |-> "interactive", hovered |-> "C"],
     [selected |-> "B", directions |-> <<"upstream">>,
      mode |-> "filter", hovered |-> "A"]}

SessionInit ==
    /\ nodes_df \in {_apply_tier_mapping(df) : df \in SessionNodeTables}
    /\ edges_df = SessionEdges
    /\ node_dimensions = _precalculate_node_dimensions(nodes_df)
    /\ call = NoCall
    /\ fig = NoFigure
    /\ inputs = NoInputs
    /\ builder = Constructed
    /\ SessionsIdle
    /\ label = NoLabel
    /\ ui = NoEvents

\* what no step of build_figure writes
BuilderState == <<nodes_df, edges_df, node_dimensions, builder>>

\* build_figure is entered with its arguments (line 1006)
Call(s, args) ==
    /\ frames[s].pc \in {"idle", "done"}
    /\ frames' = [frames EXCEPT ![s] =
                     [IdleFrame EXCEPT !.pc = "positions",
                                       !.selected = args.selected,
                                       !.directions = args.directions,
                                       !.mode = args.mode,
                                       !.hovered = args.hovered,
                                       !.prev_revision = history.returned_revision]]
    /\ UNCHANGED <<BuilderState, call, fig, inputs, clock, history, label, ui>>

\* positions = self._assign_stacked_positions() (line 1027)
AssignPositions(s) ==
    /\ frames[s].pc = "positions"
    /\ LET positions == _assign_stacked_positions(nodes_df, node_dimensions)
       IN  /\ frames' = [frames EXCEPT ![s].positions = positions, ![s].pc = "graph"]
           /\ history' = [history EXCEPT !.positions_seen = @ \cup {positions}]
    /\ UNCHANGED <<BuilderState, call, fig, inputs, clock, label, ui>>

\* G = self._build_networkx_graph(positions) (line 1028)
BuildGraph(s) ==
    /\ frames[s].pc = "graph"
    /\ LET r == _build_networkx_graph(nodes_df, edges_df, node_dimensions,
                                     frames[s].positions)
       IN  frames' = [frames EXCEPT ![s].G = r.G, ![s].raised = r.raised,
                                    ![s].pc = IF r.raised = NoError
                                              THEN "state" ELSE "done"]
    /\ UNCHANGED <<BuilderState, call, fig, inputs, clock, history, label, ui>>

\* InteractionState reading the selection from a builder attribute that the
\* other request, when it is being served, has overwritten
InteractionState_shared_selection(s) ==
    /\ frames[s].pc = "state"
    /\ LET other == CHOOSE t \in Sessions : t # s
           selected == IF frames[other].pc \notin {"idle", "done"}
                       THEN frames[other].selected ELSE frames[s].selected
       IN  frames' = [frames EXCEPT
                        ![s].state = _determine_interaction_state(
                                         frames[s].G, selected,
                                         frames[s].hovered, frames[s].mode),
                        ![s].pc = "styles"]
    /\ UNCHANGED <<BuilderState, call, fig, inputs, clock, history, label, ui>>

\* the interaction state of the call's own arguments (lines 1032-1034)
InteractionState(s) ==
    /\ frames[s].pc = "state"
    /\ frames' = [frames EXCEPT
                     ![s].state = _determine_interaction_state(
                                      frames[s].G, frames[s].selected,
                                      frames[s].hovered, frames[s].mode),
                     ![s].pc = "styles"]
    /\ UNCHANGED <<BuilderState, call, fig, inputs, clock, history, label, ui>>

\* ApplyStyles that also widens the selected node in the builder's dimensions
ApplyStyles_resizes_selected(s) ==
    /\ frames[s].pc = "styles"
    /\ LET r == _apply_node_styles(frames[s].G, frames[s].selected, frames[s].hovered,
                                  frames[s].state.highlight_nodes,
                                  frames[s].state.dim_nodes)
       IN  frames' = [frames EXCEPT ![s].G = r.G, ![s].raised = r.raised,
                                    ![s].pc = IF r.raised = NoError
                                              THEN "visible" ELSE "done"]
    /\ node_dimensions' =
          [id \in DOMAIN node_dimensions |->
              IF id = frames[s].selected
              THEN [node_dimensions[id] EXCEPT !.width = @ + char_width]
              ELSE node_dimensions[id]]
    /\ UNCHANGED <<nodes_df, edges_df, builder, call, fig, inputs, clock, history, label, ui>>

\* the styles are written into the call's own graph (line 1037)
ApplyStyles(s) ==
    /\ frames[s].pc = "styles"
    /\ LET r == _apply_node_styles(frames[s].G, frames[s].selected, frames[s].hovered,
                                  frames[s].state.highlight_nodes,
                                  frames[s].state.dim_nodes)
       IN  frames' = [frames EXCEPT ![s].G = r.G, ![s].raised = r.raised,
                                    ![s].pc = IF r.raised = NoError
                                              THEN "visible" ELSE "done"]
    /\ UNCHANGED <<BuilderState, call, fig, inputs, clock, history, label, ui>>

\* the visible elements (lines 1040-1042)
VisibleElements(s) ==
    /\ frames[s].pc = "visible"
    /\ frames' = [frames EXCEPT
                     ![s].visible = _determine_visible_elements(
                                        frames[s].G, frames[s].selected,
                                        frames[s].hovered, frames[s].directions,
                                        frames[s].mode),
                     ![s].pc = "assemble"]
    /\ UNCHANGED <<BuilderState, call, fig, inputs, clock, history, label, ui>>

\* the figure is assembled with datarevision = int(time.time() * 1000) and
\* returned (lines 1080-1112)
Assemble(s) ==
    /\ frames[s].pc = "assemble"
    /\ frames' = [frames EXCEPT ![s].datarevision = clock, ![s].pc = "done"]
    /\ history' = [history EXCEPT !.returned_revision = clock]
    /\ UNCHANGED <<BuilderState, call, fig, inputs, clock, label, ui>>

\* a millisecond passes
Tick ==
    /\ clock < MaxClock
    /\ clock' = clock + 1
    /\ UNCHANGED <<BuilderState, call, fig, inputs, frames, history, label, ui>>

SessionNext ==
    \/ \E s \in Sessions, args \in SessionCalls : Call(s, args)
    \/ \E s \in Sessions : AssignPositions(s)
    \/ \E s \in Sessions : BuildGraph(s)
    \/ \E s \in Sessions : InteractionState(s)
    \/ \E s \in Sessions : ApplyStyles(s)
    \/ \E s \in Sessions : VisibleElements(s)
    \/ \E s \in Sessions : Assemble(s)
    \/ Tick

SpecSessions == SessionInit /\ [][SessionNext]_vars

(***************************************************************************)
(* Start-up: LayoutBuilder.__init__ reads the tables, maps the tier groups *)
(* and constructs the GraphBuilder; create_layout builds the first figure. *)
(***************************************************************************)
\* the TIER_GROUP values of the tables read at start-up: two that tier_map
\* knows, the reserved fifth category and a misspelt one
LoadTierGroups == {"Foundational", "Tier 1 Dependency", "Resulting", "Foundatonal"}

\* the domain tables read_csv can return (layout.py line 26)
LoadNodeTables ==
    {[i \in DOMAIN DomainOrder |->
        [DOMAIN_ID |-> DomainOrder[i],
         DOMAIN_NAME |-> DomainName(DomainOrder[i]),
         TIER_GROUP |-> tg[i],
         CURRENT_MATURITY |-> IF DomainOrder[i] = "B" THEN 15 ELSE 10,
         BORDER_HEX |-> "#333"]] : tg \in [DOMAIN DomainOrder -> LoadTierGroups]}

LoadInit ==
    /\ nodes_df \in LoadNodeTables
    /\ edges_df = SessionEdges
    /\ node_dimensions = <<>>
    /\ call = NoCall
    /\ fig = NoFigure
    /\ inputs = NoInputs
    /\ builder = [stage |-> "read", raised |-> NoError]
    /\ SessionsIdle
    /\ label = NoLabel
    /\ ui = NoEvents

\* self._apply_tier_mapping() (layout.py line 29)
ApplyTierMapping ==
    /\ builder.stage = "read"
    /\ nodes_df' = _apply_tier_mapping(nodes_df)
    /\ builder' = [builder EXCEPT !.stage = "mapped"]
    /\ UNCHANGED <<edges_df, node_dimensions, call, fig, inputs, clock, frames,
                   history, label, ui>>

\* whether column_widths[x_group] raises for a row of the table (line 192)
column_width_missing(df) ==
    \E i \in DOMAIN df : df[i].X_GROUP \notin DOMAIN _calculate_optimal_column_widths(df)

\* GraphBuilder(self.nodes_df, self.edges_df) (layout.py line 32): __init__ ends
\* with the node dimensions, or with the KeyError of column_widths[x_group]
ConstructGraphBuilder ==
    /\ builder.stage = "mapped"
    /\ IF column_width_missing(nodes_df)
       THEN /\ builder' = [stage |-> "failed",
                           raised |-> KeyError("nan", "_precalculate_node_dimensions")]
            /\ UNCHANGED node_dimensions
       ELSE /\ builder' = Constructed
            /\ node_dimensions' = _precalculate_node_dimensions(nodes_df)
    /\ UNCHANGED <<nodes_df, edges_df, call, fig, inputs, clock, frames, history, label, ui>>

\* figure=self.graph_builder.build_figure() of create_layout (layout.py line 295)
InitialFigure ==
    /\ builder.stage = "constructed"
    /\ BuildFigure(None, <<"upstream", "downstream">>, "filter", None)
    /\ UNCHANGED inputs

LoadNext ==
    \/ ApplyTierMapping
    \/ ConstructGraphBuilder
    \/ InitialFigure

SpecLoad == LoadInit /\ [][LoadNext]_vars

(***************************************************************************)
(* The label wrapper on its own: _wrap_label_intelligently(text) for the   *)
(* texts over a small alphabet and a few domain names.                     *)
(***************************************************************************)
MaxTextLen == 4

\* a letter, the blank and the hyphen: what the wrapper tells apart
WrapAlphabet == {"a", " ", "-"}

\* names of 12, 15, 15 and 21 characters, the third with a doubled blank
LongerTexts ==
    {<<"D", "a", "t", "a", " ", "Q", "u", "a", "l", "i", "t", "y">>,
     <<"R", "i", "s", "k", " ", "a", "n", "d", " ", "A", "u", "d", "i", "t", "s">>,
     <<"R", "i", "s", "k", " ", " ", "a", "n", "d", " ", "A", "u", "d", "i", "t">>,
     DomainName("B")}

\* the character c, n times
Rep(c, n) == [i \in 1..n |-> c]

\* texts with a word longer than target_chars: alone, after another word, with
\* an early and with a late hyphen, before a second word, twice, and a word
\* that ends with a hyphen at the end of a line
SplitTexts ==
    {Rep("a", 17),
     <<"a", " ">> \o Rep("a", 17),
     Rep("a", 5) \o <<"-">> \o Rep("a", 12),
     Rep("a", 16) \o <<"-", "a", "a">>,
     Rep("a", 20) \o <<" ">> \o Rep("a", 16),
     Rep("a", 20) \o <<" ">> \o Rep("a", 20),
     Rep("a", 14) \o <<"-", " ", "a", "a", "a", "a">>}

Texts == (UNION {[1..n -> WrapAlphabet] : n \in 0..MaxTextLen})
         \cup LongerTexts \cup SplitTexts

WrapInit ==
    /\ nodes_df = <<>>
    /\ edges_df = <<>>
    /\ node_dimensions = <<>>
    /\ call = NoCall
    /\ fig = NoFigure
    /\ inputs = NoInputs
    /\ builder = Constructed
    /\ SessionsIdle
    /\ label = NoLabel
    /\ ui = NoEvents

\* a call of _wrap_label_intelligently(text)
WrapLabel(text) ==
    /\ label' = [wrapped |-> TRUE, text |-> text,
                 result |-> _wrap_label_intelligently(text).text,
                 line_count |-> _wrap_label_intelligently(text).line_count]
    /\ UNCHANGED <<nodes_df, edges_df, node_dimensions, call, fig, inputs, builder,
                   clock, frames, history, ui>>

WrapNext == \E text \in Texts : WrapLabel(text)

SpecWrap == WrapInit /\ [][WrapNext]_vars

(***************************************************************************)
(* LayoutBuilder.__init__ and the first figure on tables chosen for their  *)
(* names (widths, heights, tall labels) and for their crowded columns      *)
(* (collisions between the buckets of one x-group).                        *)
(***************************************************************************)
\* a name of 14 characters in one word
Infrastructure ==
    <<"I", "n", "f", "r", "a", "s", "t", "r", "u", "c", "t", "u", "r", "e">>

\* a name of 24 characters whose second word has 22
LongWordName == <<"a", " ">> \o Rep("a", 22)

\* a name of 43 characters that wraps into four lines
TallName ==
    Rep("a", 10) \o <<" ">> \o Rep("b", 10) \o <<" ">> \o Rep("c", 10)
        \o <<" ">> \o Rep("d", 10)

TableNames == {DomainName("A"), DomainName("B"), Infrastructure, LongWordName, TallName}

\* three domains, A and C at maturity 1.0 and B at 1.5, with any of the names
\* and any of two tier groups
NamedTables ==
    {[i \in DOMAIN DomainOrder |->
        [DOMAIN_ID |-> DomainOrder[i],
         DOMAIN_NAME |-> name[i],
         TIER_GROUP |-> tg[i],
         CURRENT_MATURITY |-> IF DomainOrder[i] = "B" THEN 15 ELSE 10,
         BORDER_HEX |-> "#333"]] :
       name \in [DOMAIN DomainOrder -> TableNames],
       tg \in [DOMAIN DomainOrder -> {"Foundational", "Tier 1 Dependency"}]}

CrowdIds ==
    <<"N01", "N02", "N03", "N04", "N05", "N06", "N07", "N08", "N09",
      "N10", "N11", "N12", "N13", "N14", "N15", "N16", "N17", "N18">>

\* one column with n10 domains at maturity 1.0, then n15 at 1.5, then n20 at
\* 2.0, named A, B, C, ... in table order
CrowdTable(n10, n15, n20) ==
    [i \in 1..(n10 + n15 + n20) |->
        [DOMAIN_ID |-> CrowdIds[i],
         DOMAIN_NAME |-> <<Alphabet[4 + i]>>,
         TIER_GROUP |-> "Foundational",
         CURRENT_MATURITY |-> IF i <= n10 THEN 10 ELSE IF i <= n10 + n15 THEN 15 ELSE 20,
         BORDER_HEX |-> "#333"]]

\* eleven domains at maturity 1.0 reach up to the band of maturity 1.5, and five
\* spread domains at 1.5 reach up to the band of 2.0
CrowdTables ==
    {CrowdTable(11, 1, 0), CrowdTable(11, 2, 1), CrowdTable(11, 5, 1),
     CrowdTable(11, 5, 2), CrowdTable(3, 2, 1)}

TablesInit ==
    /\ nodes_df \in NamedTables \cup CrowdTables
    /\ edges_df = <<>>
    /\ node_dimensions = <<>>
    /\ call = NoCall
    /\ fig = NoFigure
    /\ inputs = NoInputs
    /\ builder = [stage |-> "read", raised |-> NoError]
    /\ SessionsIdle
    /\ label = NoLabel
    /\ ui = NoEvents

SpecTables == TablesInit /\ [][LoadNext]_vars

(***************************************************************************)
(* The selection callback sync_selection (callbacks.py lines 27-48).  An    *)
(* event sets one Input property, the callback runs on the values all its  *)
(* Inputs hold at that moment, and its three outputs are written to        *)
(* selected-domain, domain-selector and selected-node-store.  The field    *)
(* since_reset is no property of the page: it records that a Reset click   *)
(* cleared the selection in interactive mode and no node has been clicked  *)
(* since.                                                                  *)
(***************************************************************************)
MaxClicks == 2

\* the customdata a clicked point can carry: a node id or a sentinel
ClickPoints == {"A", "B", "__background__", "RESET"}

\* the values the user can give the dropdown: a domain, or none (cleared)
DropdownValues == {"A", "B", None}

\* _extract_node_id(click_data) (lines 12-15)
_extract_node_id(click_data) ==
    IF click_data \in {None, "__background__", "RESET"} THEN None ELSE click_data

\* sync_selection: its three outputs (lines 39-48)
sync_selection(drop_val, click_data, relayout_data, triggered, mode) ==
    IF mode = "interactive"
    THEN IF triggered = "reset-button" \/ relayout_data = "autosize"
         THEN <<"All", "All", None>>
         ELSE LET node_id == _extract_node_id(click_data)
              IN  IF Truthy(node_id) THEN <<node_id, node_id, node_id>>
                  ELSE <<"All", "All", None>>
    ELSE LET val == IF Truthy(drop_val) THEN drop_val ELSE "All"
         IN  <<val, val, IF val = "All" THEN None ELSE val>>

\* the page after an event: the Input properties as the event left them, then
\* the outputs of the run it triggers
Fire(props, triggered) ==
    LET out == sync_selection(props.drop_val, props.click_data, props.relayout_data,
                              triggered, props.mode)
    IN  /\ ui' = [props EXCEPT
                    !.selected_domain = out[1],
                    !.drop_val = out[2],
                    !.selected_node_store = out[3],
                    !.triggered = triggered,
                    !.since_reset =
                        IF triggered = "reset-button"
                        THEN props.mode = "interactive"
                        ELSE IF triggered = "clickData"
                                /\ _extract_node_id(props.click_data) # None
                        THEN FALSE
                        ELSE props.since_reset]
        /\ UNCHANGED <<nodes_df, edges_df, node_dimensions, call, fig, inputs, builder,
                       clock, frames, history, label>>

\* a click on a point of the graph
Click(point) == Fire([ui EXCEPT !.click_data = point], "clickData")

\* a relayout of the graph: a resize ({"autosize": True}) or anything else
Relayout(data) == Fire([ui EXCEPT !.relayout_data = data], "relayoutData")

\* a click on the Reset button
ResetClick ==
    /\ ui.n_clicks < MaxClicks
    /\ Fire([ui EXCEPT !.n_clicks = @ + 1], "reset-button")

\* the mode radio switched to the other mode
ModeToggle ==
    Fire([ui EXCEPT !.mode = IF @ = "interactive" THEN "filter" ELSE "interactive"],
         "mode-toggle")

\* another value chosen in the dropdown
DropdownChange(value) ==
    /\ value # ui.drop_val
    /\ Fire([ui EXCEPT !.drop_val = value], "domain-selector")

UIInit ==
    /\ nodes_df = <<>>
    /\ edges_df = <<>>
    /\ node_dimensions = <<>>
    /\ call = NoCall
    /\ fig = NoFigure
    /\ inputs = NoInputs
    /\ builder = Constructed
    /\ SessionsIdle
    /\ label = NoLabel
    /\ ui = NoEvents

UINext ==
    \/ \E point \in ClickPoints : Click(point)
    \/ \E data \in {"autosize", "other"} : Relayout(data)
    \/ ResetClick
    \/ ModeToggle
    \/ \E value \in DropdownValues : DropdownChange(value)

SpecUI == UIInit /\ [][UINext]_vars

(***************************************************************************)
(* Properties.                                                             *)
(***************************************************************************)
\* a build that returned a figure
Returned == fig.built /\ fig.raised = NoError

\* the last build had a selection that is a node of its graph
SelectedInGraph == Returned /\ call.selected \in NodeSet(fig.G)

\* the (source, target) pairs of the visible edges
VisiblePairs == {<<e[1], e[2]>> : e \in Range(fig.visible_edges)}

Upstream == "upstream" \in Range(call.directions)

Downstream == "downstream" \in Range(call.directions)

\* C1: every visible edge returned by the resolver has both its endpoints in
\* the visible-node set, for every graph, mode, direction list, selection and hover.
C1_ReferentialClosure ==
    Returned =>
        \A e \in Range(fig.visible_edges) :
            e[1] \in fig.visible_nodes /\ e[2] \in fig.visible_nodes

\* a selection narrowed the view to a proper part of the graph that has edges
C1_Witness ==
    /\ SelectedInGraph
    /\ Len(fig.visible_edges) >= 2
    /\ fig.visible_nodes # NodeSet(fig.G)
    /\ Cardinality(fig.visible_nodes) >= 2

\* C2: with a selection S of the graph, directions = {upstream} makes every
\* visible edge end at S and directions = {downstream} makes every visible edge
\* start at S, in filter and in interactive mode.
C2_DirectionFilter ==
    SelectedInGraph =>
        /\ Range(call.directions) = {"upstream"} =>
              \A e \in Range(fig.visible_edges) : e[2] = call.selected
        /\ Range(call.directions) = {"downstream"} =>
              \A e \in Range(fig.visible_edges) : e[1] = call.selected

\* an upstream-only view of a node that also has an outgoing edge to another node
C2_Witness ==
    /\ SelectedInGraph
    /\ call.mode = "interactive"
    /\ Range(call.directions) = {"upstream"}
    /\ fig.visible_edges # <<>>
    /\ \E i \in DOMAIN edges_df :
          /\ edges_df[i].SOURCE_DOMAIN_ID = call.selected
          /\ edges_df[i].TARGET_DOMAIN_ID # call.selected

\* the rows of the dependency table that touch S in an allowed direction
IncidentRows(S) ==
    {i \in DOMAIN edges_df :
        \/ Upstream /\ edges_df[i].TARGET_DOMAIN_ID = S
        \/ Downstream /\ edges_df[i].SOURCE_DOMAIN_ID = S}

\* C3: with a selection S of the graph the visible nodes are exactly S and its
\* one-hop neighbours along the allowed directions, the visible edges are exactly
\* the edges incident to S in those directions, and (the right-hand sides not
\* reading the mode) the result is the same in filter and in interactive mode.
C3_OneHopView ==
    SelectedInGraph =>
        LET S == call.selected
        IN  /\ fig.visible_nodes =
                  {S} \cup {edges_df[i].SOURCE_DOMAIN_ID : i \in IncidentRows(S)}
                      \cup {edges_df[i].TARGET_DOMAIN_ID : i \in IncidentRows(S)}
            /\ VisiblePairs =
                  {<<edges_df[i].SOURCE_DOMAIN_ID, edges_df[i].TARGET_DOMAIN_ID>> :
                      i \in IncidentRows(S)}

\* a one-direction view in interactive mode that leaves out a neighbour of S
C3_Witness ==
    /\ SelectedInGraph
    /\ call.mode = "interactive"
    /\ Range(call.directions) = {"downstream"}
    /\ Cardinality(fig.visible_nodes) = 2
    /\ \E i \in DOMAIN edges_df :
          /\ edges_df[i].TARGET_DOMAIN_ID = call.selected
          /\ edges_df[i].SOURCE_DOMAIN_ID \notin fig.visible_nodes

\* the nodes a scene draws a shape for, and those it writes a label for
ShapeNodes == {fig.node_shapes[i].node : i \in DOMAIN fig.node_shapes}

AnnotationNodes == {fig.node_annotations[i].node : i \in DOMAIN fig.node_annotations}

\* C4: the scene holds exactly one node shape and one text annotation for each
\* node of the visible-node set and none for any other node, so that in filter
\* mode with a selection the nodes outside the visible set are absent.
C4_SceneDrawsVisibleNodesOnly ==
    Returned =>
        /\ ShapeNodes = fig.visible_nodes
        /\ AnnotationNodes = fig.visible_nodes
        /\ \A n \in fig.visible_nodes :
              /\ Cardinality({i \in DOMAIN fig.node_shapes :
                                 fig.node_shapes[i].node = n}) = 1
              /\ Cardinality({i \in DOMAIN fig.node_annotations :
                                 fig.node_annotations[i].node = n}) = 1

\* the resolved style of a node of a build
StyleOf(f, n) ==
    [border |-> f.G.attr[n].border, opacity |-> f.G.attr[n].opacity,
     glow |-> f.G.attr[n].glow]

Dimmed(n) == fig.G.attr[n].opacity = OpacityDim

\* C5: no node is both dimmed (opacity 0.2) and outside the visible-node set,
\* and dimming happens only in interactive mode with a selection: in filter mode
\* no node gets opacity 0.2, whatever the selection, hover and directions.
C5_DimmingOnlyInteractive ==
    Returned =>
        /\ \A n \in NodeSet(fig.G) : ~(Dimmed(n) /\ n \notin fig.visible_nodes)
        /\ call.mode = "filter" => \A n \in NodeSet(fig.G) : ~Dimmed(n)
        /\ (\E n \in NodeSet(fig.G) : Dimmed(n)) =>
              call.mode = "interactive" /\ call.selected \notin {None, "All"}

\* the resolved state of a build: what is visible and every node's style
Resolved(f) ==
    [raised |-> f.raised,
     visible_nodes |-> f.visible_nodes,
     visible_edges |-> f.visible_edges,
     style |-> [n \in NodeSet(f.G) |-> StyleOf(f, n)]]

\* the last build done again with another selection, or with another hover
WithSelected(selected) ==
    build_figure(nodes_df, edges_df, node_dimensions,
                 selected, call.directions, call.mode, call.hovered)

WithHovered(hovered) ==
    build_figure(nodes_df, edges_df, node_dimensions,
                 call.selected, call.directions, call.mode, hovered)

\* C6: in either mode a build with selection "All" resolves to the same state
\* (visible nodes and edges, every node's border, opacity and glow) as the build
\* with no selection, for every hover and direction input.
C6_AllIsNoSelection ==
    (Returned /\ call.selected = "All") => Resolved(fig) = Resolved(WithSelected(None))

\* C7: a selected or hovered id that is no domain id is treated as no selection
\* or no hover: the resolved state is the one of the build with that input None,
\* and no error is raised that the build with None does not raise.
C7_UnknownIdsIgnored ==
    fig.built =>
        /\ call.selected \notin (IdsOf(nodes_df) \cup {None, "All"}) =>
              Resolved(fig) = Resolved(WithSelected(None))
        /\ call.hovered \notin (IdsOf(nodes_df) \cup {None, "RESET"}) =>
              Resolved(fig) = Resolved(WithHovered(None))

\* the ids a dependency row names that are no domain ids
DanglingIds ==
    ({edges_df[i].SOURCE_DOMAIN_ID : i \in DOMAIN edges_df}
        \cup {edges_df[i].TARGET_DOMAIN_ID : i \in DOMAIN edges_df})
    \ IdsOf(nodes_df)

\* every domain of the table has a position
AllPositioned ==
    IdsOf(nodes_df) \subseteq DOMAIN _assign_stacked_positions(nodes_df, node_dimensions)

\* C8: on valid model data (maturities among 1.0, 1.5, 2.0, 3.0, 4.0 and every
\* dependency between domains of the table) build_figure gives every domain a
\* position and returns a scene without an exception, for every selection,
\* hover, mode and direction list.
C8_BuildIsTotal ==
    (/\ fig.built
     /\ \A i \in DOMAIN nodes_df : nodes_df[i].CURRENT_MATURITY \in Maturities
     /\ DanglingIds = {})
    => (AllPositioned /\ fig.raised = NoError)

\* C9: a dependency row whose source or target is no domain id is rejected or
\* dropped when the graph is built: the id never becomes a node or an edge
\* endpoint of the graph that is styled and rendered, and the failure is an
\* error that names the dangling reference.  (Tables whose domains all get a
\* position, so that the graph is built.)
C9_DanglingRowsRejected ==
    (fig.built /\ AllPositioned) =>
        \A d \in DanglingIds :
            /\ d \notin NodeSet(fig.G)
            /\ \A e \in DOMAIN fig.G.edata : e[1] # d /\ e[2] # d
            /\ fig.raised.type # "None" => fig.raised.key = d

\* C10: parallel dependencies are kept: with no selection the number of visible
\* edges and of edge traces equals the number of rows of the dependency table,
\* and every row has its own visible edge with its weight, tier and description.
C10_ParallelEdgesKept ==
    (Returned /\ call.selected = None) =>
        /\ Len(fig.visible_edges) = Len(edges_df)
        /\ Len(fig.edge_traces) = Len(edges_df)
        /\ \A i \in DOMAIN edges_df :
              \E k \in DOMAIN fig.visible_edges :
                  fig.visible_edges[k] =
                      <<edges_df[i].SOURCE_DOMAIN_ID, edges_df[i].TARGET_DOMAIN_ID,
                        [weight |-> edges_df[i].WEIGHT, tier |-> edges_df[i].TIER,
                         description |-> edges_df[i].DESCRIPTION]>>

\* C11: whenever the selection is a node of the graph, that node's resolved
\* style has border #000000 and opacity 1.0, in every mode, for every hover value
\* (a hover on the selected node included) and every direction list; the node is
\* never in the dimmed set and never gets the gold hover border.
C11_SelectedNodeStyle ==
    SelectedInGraph =>
        /\ StyleOf(fig, call.selected).border = "#000000"
        /\ StyleOf(fig, call.selected).opacity = OpacityFull
        /\ call.selected \notin fig.dim_nodes

\* the selected node is hovered too, in a build that dims other nodes
C11_Witness ==
    /\ SelectedInGraph
    /\ call.hovered = call.selected
    /\ StyleOf(fig, call.selected).glow
    /\ fig.dim_nodes # {}

\* C12: hover changes style only.  The visible nodes and the visible edges of a
\* build are those of the same build without a hover; a hovered node of the graph
\* that is not the selected node gets border #FFD700 and glow = true; and in
\* interactive mode with no selection a hover dims no node and hides nothing.
C12_HoverChangesStyleOnly ==
    Returned =>
        /\ LET unhovered == WithHovered(None)
           IN  /\ fig.visible_nodes = unhovered.visible_nodes
               /\ fig.visible_edges = unhovered.visible_edges
        /\ (call.hovered \in NodeSet(fig.G) /\ call.hovered # call.selected) =>
              /\ StyleOf(fig, call.hovered).border = "#FFD700"
              /\ StyleOf(fig, call.hovered).glow
        /\ (call.mode = "interactive" /\ call.selected = None) =>
              /\ \A n \in NodeSet(fig.G) : ~Dimmed(n)
              /\ fig.dim_nodes = {}
              /\ fig.visible_nodes = NodeSet(fig.G)
              /\ Len(fig.visible_edges) = Cardinality(DOMAIN fig.G.edata)

\* interactive mode, no selection, a node of a graph with an edge is hovered
C12_Witness ==
    /\ Returned
    /\ call.mode = "interactive"
    /\ call.selected = None
    /\ call.hovered \in NodeSet(fig.G)
    /\ StyleOf(fig, call.hovered).glow
    /\ fig.visible_edges # <<>>

\* the nodes a row of the dependency table connects to S, in either direction
ConnectedTo(S) ==
    {edges_df[i].TARGET_DOMAIN_ID : i \in {j \in DOMAIN edges_df :
                                             edges_df[j].SOURCE_DOMAIN_ID = S}}
    \cup {edges_df[i].SOURCE_DOMAIN_ID : i \in {j \in DOMAIN edges_df :
                                                  edges_df[j].TARGET_DOMAIN_ID = S}}

\* C13: in interactive mode with a selection S of the graph a node gets opacity
\* 0.2 exactly when it is not S, not the hovered node and not directly connected
\* to S by an edge; every node directly connected to S keeps opacity 1.0.
C13_InteractiveDimming ==
    (SelectedInGraph /\ call.mode = "interactive") =>
        \A n \in NodeSet(fig.G) :
            /\ Dimmed(n) <=> (/\ n # call.selected
                              /\ n # call.hovered
                              /\ n \notin ConnectedTo(call.selected))
            /\ n \in ConnectedTo(call.selected) =>
                  StyleOf(fig, n).opacity = OpacityFull

\* S has a predecessor that stays bright, another node is dimmed, and the
\* direction list leaves the predecessor out of the visible edges
C13_Witness ==
    /\ SelectedInGraph
    /\ call.mode = "interactive"
    /\ Range(call.directions) = {"downstream"}
    /\ \E n \in NodeSet(fig.G) : Dimmed(n)
    /\ \E i \in DOMAIN edges_df :
          /\ edges_df[i].TARGET_DOMAIN_ID = call.selected
          /\ edges_df[i].SOURCE_DOMAIN_ID # call.selected
          /\ ~Dimmed(edges_df[i].SOURCE_DOMAIN_ID)

\* the last build done again with another direction list
WithDirections(directions) ==
    build_figure(nodes_df, edges_df, node_dimensions,
                 call.selected, directions, call.mode, call.hovered)

\* the entries of a direction list that name a direction
ValidEntries(directions) ==
    SelectSeq(directions, LAMBDA d : d \in {"upstream", "downstream"})

\* C14: an empty, missing or entirely invalid direction list handed to the
\* graph callback behaves as both directions: the visible nodes and edges are
\* those resolved with {upstream, downstream}; a list that mixes valid and
\* invalid entries behaves as its valid entries only.
C14_DirectionsDefaultToBoth ==
    (Returned /\ inputs.fired) =>
        LET valid == ValidEntries(inputs.directions)
            expected == WithDirections(IF valid = <<>>
                                       THEN <<"upstream", "downstream">> ELSE valid)
        IN  /\ fig.visible_nodes = expected.visible_nodes
            /\ fig.visible_edges = expected.visible_edges

\* an entirely invalid list with a selection that has edges in both directions
C14_Witness ==
    /\ SelectedInGraph
    /\ inputs.fired
    /\ inputs.directions = <<"sideways">>
    /\ \E e \in Range(fig.visible_edges) : e[1] = call.selected /\ e[2] # call.selected
    /\ \E e \in Range(fig.visible_edges) : e[2] = call.selected /\ e[1] # call.selected

\* a request whose call has computed its positions
HasPositions(s) == frames[s].pc \notin {"idle", "positions"}

\* a request whose call has returned a figure
Done(s) == frames[s].pc = "done" /\ frames[s].raised = NoError

\* C15: position assignment is deterministic and history-independent: for the
\* same domain table every call of _assign_stacked_positions returns the same
\* coordinates, whatever builds, selections and hovers came before it and
\* however often it has been called.
C15_PositionsDeterministic ==
    \A s \in Sessions :
        HasPositions(s) =>
            /\ history.positions_seen = {frames[s].positions}
            /\ IdsOf(nodes_df) \subseteq DOMAIN frames[s].positions

\* positions computed again after a build with another selection has returned,
\* for a table that puts two domains into one bucket
C15_Witness ==
    /\ HasPositions(1) /\ Done(2)
    /\ frames[1].prev_revision >= 0
    /\ frames[1].selected # frames[2].selected
    /\ frames[1].positions["A"][1] = frames[1].positions["C"][1]
    /\ frames[1].positions["A"][2] # frames[1].positions["C"][2]

\* C16: successive builds carry an increasing revision: of two build_figure
\* calls made one after the other, the later figure's datarevision is greater
\* than the earlier one's, so two consecutive builds never carry the same one.
C16_RevisionIncreases ==
    \A s \in Sessions :
        (Done(s) /\ frames[s].prev_revision # -1) =>
            frames[s].datarevision > frames[s].prev_revision

\* the per-node style of a graph
StylesOf(G) ==
    [n \in Range(G.nodes) |->
        [border |-> G.attr[n].border, opacity |-> G.attr[n].opacity,
         glow |-> G.attr[n].glow]]

\* the call of a request run alone, in one piece
Alone(s) ==
    build_figure(nodes_df, edges_df, node_dimensions, frames[s].selected,
                 frames[s].directions, frames[s].mode, frames[s].hovered)

\* C17: build_figure never modifies the builder's model or dimensions: every
\* step of every build leaves nodes_df, edges_df and node_dimensions (width,
\* height and wrapped label of every node) as they were, and the style a build
\* resolves is the one its own inputs give, whatever styles earlier builds applied.
C17_BuildsLeaveBuilderAlone ==
    [][/\ nodes_df' = nodes_df
       /\ edges_df' = edges_df
       /\ node_dimensions' = node_dimensions
       /\ node_dimensions' = _precalculate_node_dimensions(nodes_df')
       /\ \A s \in Sessions :
             (frames'[s].pc = "done" /\ frames[s].pc # "done") =>
                 StylesOf(frames'[s].G) =
                     StylesOf(build_figure(nodes_df', edges_df', node_dimensions',
                                           frames'[s].selected, frames'[s].directions,
                                           frames'[s].mode, frames'[s].hovered).G)]_vars

\* two builds with different selections have returned one after the other, the
\* later one dimming a node
C17_Witness ==
    /\ Done(1) /\ Done(2)
    /\ frames[1].selected # frames[2].selected
    /\ frames[2].prev_revision = frames[1].datarevision
    /\ frames[2].state.dim_nodes # {}
    /\ node_dimensions = _precalculate_node_dimensions(nodes_df)

\* C18: two build_figure calls on the same GraphBuilder with different
\* interaction inputs, their steps interleaved, each produce the visible sets
\* and the per-node styles they produce when run alone.
C18_InterleavedBuildsIndependent ==
    \A s \in Sessions :
        Done(s) =>
            /\ frames[s].visible.visible_nodes = Alone(s).visible_nodes
            /\ frames[s].visible.visible_edges = Alone(s).visible_edges
            /\ frames[s].state.dim_nodes = Alone(s).dim_nodes
            /\ StylesOf(frames[s].G) = StylesOf(Alone(s).G)

\* a request has returned while the other one, called with another selection
\* before any build had returned, is past its styling step
C18_Witness ==
    /\ Done(1)
    /\ frames[2].pc \in {"visible", "assemble"}
    /\ frames[2].prev_revision = -1
    /\ frames[1].prev_revision = -1
    /\ frames[1].selected # frames[2].selected
    /\ frames[1].state.dim_nodes # frames[2].state.dim_nodes

\* the rows whose TIER_GROUP is none of the mapped values
UnmappedRows ==
    {i \in DOMAIN nodes_df :
        nodes_df[i].TIER_GROUP \notin {"Foundational", "Tier 1 Dependency",
                                       "Tier 2 Dependency", "Compilatory"}}

\* C19: a domain whose TIER_GROUP is not one of the mapped values (such as
\* "Resulting" or a misspelt group) falls back to X-group 0: once the builder
\* has been constructed the domain has dimensions, the first figure is built
\* without an error and places the domain in the column of X-group 0.
C19_UnknownTierGroupFallsBack ==
    \A i \in UnmappedRows :
        /\ builder.stage # "failed"
        /\ builder.stage = "constructed" => nodes_df[i].X_GROUP = 0
        /\ builder.stage = "constructed" => nodes_df[i].DOMAIN_ID \in DOMAIN node_dimensions
        /\ fig.built =>
              /\ fig.raised = NoError
              /\ fig.G.attr[nodes_df[i].DOMAIN_ID].pos[1] = 0

\* C20 as stated: for every text of at most 15 characters the wrapper returns
\* the text itself, unchanged, with line count 1.
C20_ShortTextUnchanged ==
    (label.wrapped /\ Len(label.text) <= 15) =>
        /\ label.result = label.text
        /\ label.line_count = 1

\* a text whose words are separated by single blanks, with no blank at either end
SingleSpaced(text) ==
    \/ text = <<>>
    \/ /\ text[1] # " "
       /\ text[Len(text)] # " "
       /\ \A i \in 1..(Len(text) - 1) : ~(text[i] = " " /\ text[i + 1] = " ")

\* C20 amended: for every text of at most 15 characters whose words are
\* separated by single blanks, with no blank at either end, the wrapper returns
\* the text itself, unchanged, with line count 1.
C20_ShortSingleSpacedTextUnchanged ==
    (label.wrapped /\ Len(label.text) <= 15 /\ SingleSpaced(label.text)) =>
        /\ label.result = label.text
        /\ label.line_count = 1

\* a name of exactly 15 characters in three words came back as it went in
C20_Witness ==
    /\ label.wrapped
    /\ Len(label.text) = 15
    /\ SingleSpaced(label.text)
    /\ Len(str_split(label.text)) = 3
    /\ label.result = label.text

\* the lines of the wrapped text the wrapper returned
WrappedLines == br_split(label.result)

\* the non-final lines that end with a hyphen
HyphenEnded(lines) ==
    {i \in 1..(Len(lines) - 1) : lines[i] # <<>> /\ lines[i][Len(lines[i])] = "-"}

\* the lines put together: glue[i] says what joins line i to the next one, a
\* blank, nothing, or nothing after the hyphen at the end of line i is removed
Rejoin(lines, glue) ==
    Concat([i \in 1..Len(lines) |->
              IF i = Len(lines) THEN lines[i]
              ELSE IF glue[i] = "dehyphen" THEN Prefix(lines[i], Len(lines[i]) - 1)
              ELSE IF glue[i] = "blank" THEN Append(lines[i], " ")
              ELSE lines[i]])

\* the ways of joining the lines: a hyphen is only removed where a line ends with one
Glues(lines) ==
    {glue \in [1..(Len(lines) - 1) -> {"blank", "none", "dehyphen"}] :
        \A i \in 1..(Len(lines) - 1) : glue[i] = "dehyphen" => i \in HyphenEnded(lines)}

RECURSIVE blank_join(_)
\* " ".join(words)
blank_join(words) ==
    IF words = <<>> THEN <<>>
    ELSE IF Len(words) = 1 THEN words[1]
    ELSE words[1] \o <<" ">> \o blank_join(Tail(words))

\* C21 as stated: for any text, concatenating the lines of the wrapped output
\* (the <br> markers stripped) and removing the hyphens the wrapper inserted
\* gives the original text.
C21_ConcatenatedLinesGiveText ==
    label.wrapped =>
        \E glue \in Glues(WrappedLines) :
            /\ \A i \in DOMAIN glue : glue[i] # "blank"
            /\ Rejoin(WrappedLines, glue) = label.text

\* C21 amended: for any text, joining the lines of the wrapped output with a
\* blank where the wrapper broke between two words, with nothing where it broke
\* a word at its own hyphen, and with the inserted hyphen removed where it
\* forced a break, gives the text with its words separated by single blanks.
C21_RejoinedLinesGiveWords ==
    label.wrapped =>
        \E glue \in Glues(WrappedLines) :
            Rejoin(WrappedLines, glue) = blank_join(str_split(label.text))

\* a text of two long words came back in three lines, one forced break with an
\* inserted hyphen and one break at the blank
C21_Witness ==
    /\ label.wrapped
    /\ label.line_count = 3
    /\ ~Contains(label.text, "-")
    /\ HyphenEnded(WrappedLines) = {1}
    /\ Rejoin(WrappedLines, <<"dehyphen", "blank">>) = label.text

\* the first piece the wrapper is to cut off a word longer than target_chars:
\* up to its first hyphen when at most target_chars - 1 characters precede it,
\* else its first target_chars - 1 characters and an inserted hyphen
FirstPiece(word, target_chars) ==
    IF Contains(word, "-") /\ FirstIndex(word, "-") - 1 <= target_chars - 1
    THEN SubSeq(word, 1, FirstIndex(word, "-"))
    ELSE Append(Prefix(word, target_chars - 1), "-")

\* C24 as stated: every word longer than the adaptive target width is split,
\* wherever it occurs in the text: at its first hyphen when at most target - 1
\* characters precede it, otherwise by a forced break that emits the first
\* target - 1 characters followed by an inserted hyphen.
C24_EveryLongWordSplit ==
    label.wrapped =>
        \A k \in DOMAIN str_split(label.text) :
            LET word == str_split(label.text)[k]
                target_chars == target_chars_of(label.text)
            IN  Len(word) > target_chars =>
                    /\ \E i \in DOMAIN WrappedLines :
                           WrappedLines[i] = FirstPiece(word, target_chars)
                    /\ \A i \in DOMAIN WrappedLines : WrappedLines[i] # word

\* C26 as stated: the visible-edge list returned by the resolver never holds
\* the same edge (source, target) twice, for every graph (a self-loop on the
\* selected node included), selection and direction list.
C26_NoDuplicateVisibleEdges ==
    Returned =>
        \A i, j \in DOMAIN fig.visible_edges :
            i # j => <<fig.visible_edges[i][1], fig.visible_edges[i][2]>>
                     # <<fig.visible_edges[j][1], fig.visible_edges[j][2]>>

\* an interactive build with a selection of the graph and no hover
InteractiveNoHover ==
    SelectedInGraph /\ call.mode = "interactive" /\ call.hovered = None

\* the neighbours of the selection through a direction that is switched on
ReachedThroughDirections ==
    (IF Upstream
     THEN {e[1] : e \in Range(in_edges(fig.G, call.selected))} ELSE {})
    \cup (IF Downstream
          THEN {e[2] : e \in Range(out_edges(fig.G, call.selected))} ELSE {})

\* C27 as stated: in interactive mode with a selection S of the graph and no
\* hover, for every direction list a node is dimmed (opacity 0.2) if and only if
\* it is outside the visible-node set; a neighbour of S reached only through a
\* switched-off direction is dimmed.
C27_DimmedIffNotVisible ==
    InteractiveNoHover =>
        \A n \in NodeSet(fig.G) : Dimmed(n) <=> n \notin fig.visible_nodes

\* C27 amended: in interactive mode with a selection S of the graph and no
\* hover, every dimmed node is outside the visible-node set for every direction
\* list, and with both directions switched on a node is dimmed if and only if it
\* is outside the visible-node set; a neighbour of S reached only through a
\* switched-off direction is outside the visible-node set and keeps opacity 1.0.
C27_DimmedOnlyIfNotVisible ==
    InteractiveNoHover =>
        /\ \A n \in NodeSet(fig.G) : Dimmed(n) => n \notin fig.visible_nodes
        /\ (Upstream /\ Downstream) =>
              \A n \in NodeSet(fig.G) : Dimmed(n) <=> n \notin fig.visible_nodes
        /\ \A n \in ConnectedTo(call.selected)
                    \ (ReachedThroughDirections \cup {call.selected}) :
              /\ n \notin fig.visible_nodes
              /\ StyleOf(fig, n).opacity = OpacityFull

\* only upstream is switched on, S has a successor that is no predecessor: it is
\* left out of the visible nodes and is not dimmed, while another node is dimmed
C27_Witness ==
    /\ InteractiveNoHover
    /\ Range(call.directions) = {"upstream"}
    /\ \E n \in NodeSet(fig.G) : Dimmed(n)
    /\ \E n \in ConnectedTo(call.selected) \ {call.selected} :
          /\ n \notin ReachedThroughDirections
          /\ n \notin fig.visible_nodes
          /\ ~Dimmed(n)

\* the builder is constructed and the first figure has been built
FirstFigure == builder = Constructed /\ fig.built /\ fig.raised = NoError

\* the rows of the column of row i
ColumnOf(i) == {j \in DOMAIN nodes_df : nodes_df[j].X_GROUP = nodes_df[i].X_GROUP}

\* the longest line of the wrapped form of a name
LongestLine(name) == max_line_length_of(_wrap_label_intelligently(name).text)

Clamp(lo, x, hi) == IF x < lo THEN lo ELSE IF x > hi THEN hi ELSE x

\* C25 (lengths in units of 0.0001): every node's width is the width of its
\* column, clamp(0.8, L * 0.07 + 0.25, 1.6) with L the longest line of the wrapped form of the column's longest
\* raw name; all nodes of one x-group share one width, every width lies in
\* [0.8, 1.6], and every node's height is 0.18 + lineCount * 0.12.
C25_ColumnWidthsAndHeights ==
    FirstFigure =>
        \A i \in DOMAIN nodes_df :
            LET attrs == fig.G.attr[nodes_df[i].DOMAIN_ID]
            IN  /\ \E j \in ColumnOf(i) :
                       /\ \A k \in ColumnOf(i) :
                              Len(nodes_df[k].DOMAIN_NAME) <= Len(nodes_df[j].DOMAIN_NAME)
                       /\ attrs.width =
                              Clamp(8000, LongestLine(nodes_df[j].DOMAIN_NAME) * 700 + 2500,
                                    16000)
                /\ \A k \in ColumnOf(i) :
                       fig.G.attr[nodes_df[k].DOMAIN_ID].width = attrs.width
                /\ attrs.width >= 8000 /\ attrs.width <= 16000
                /\ attrs.height = 1800 + Len(br_split(attrs.wrapped_label)) * 1200

\* one table has a column at the upper clamp (a line of 22 characters), a column
\* between the clamps, and a label of four lines
C25_Witness ==
    /\ FirstFigure
    /\ \E i, j, k \in DOMAIN nodes_df :
          /\ fig.G.attr[nodes_df[i].DOMAIN_ID].width = 16000
          /\ LongestLine(nodes_df[i].DOMAIN_NAME) = 22
          /\ fig.G.attr[nodes_df[j].DOMAIN_ID].width \in 8001..15999
          /\ fig.G.attr[nodes_df[k].DOMAIN_ID].height = 6600

\* C30 as stated: the width of a column is sufficient for every node in it: for
\* every node the column width is at least min(1.6, M * 0.07 + 0.25), M being the
\* longest line of that node's own wrapped label.
C30_WidthFitsEveryLabel ==
    FirstFigure =>
        \A i \in DOMAIN nodes_df :
            LET attrs == fig.G.attr[nodes_df[i].DOMAIN_ID]
            IN  attrs.width >= Min2(16000,
                                    max_line_length_of(attrs.wrapped_label) * 700 + 2500)

\* the (tier, x_group) buckets of the table in the order they are placed
Buckets == buckets_of(nodes_df)

\* the rows of bucket b in the order they are put on its grid
BucketRows(b) == sort_by_name(bucket_rows(nodes_df, TIER_BAND_COLORS[b[1]], b[2]))

\* the y and the height the first figure has for a domain
YOf(id) == fig.G.attr[id].pos[2]

HeightOf(id) == fig.G.attr[id].height

\* the domains of the buckets placed before bucket number k, in the same x-group
PlacedBefore(k) ==
    UNION {{BucketRows(Buckets[m])[i].DOMAIN_ID : i \in DOMAIN BucketRows(Buckets[m])} :
           m \in {n \in 1..(k - 1) : Buckets[n][2] = Buckets[k][2]}}

\* the vertical extents y +- height/2 are more than min_gap (0.15) apart
Separated(y1, h1, y2, h2) ==
    \/ y1 - h1 \div 2 > y2 + h2 \div 2 + 1500
    \/ y1 + h1 \div 2 < y2 - h2 \div 2 - 1500

RECURSIVE SpacingAt(_)
\* the local spacing of attempt number a: 0.7 multiplied a - 1 times by 1.08
SpacingAt(a) == IF a = 1 THEN 7000 ELSE (SpacingAt(a - 1) * 108) \div 100

\* the y of the i-th of count nodes in attempt a of a bucket of tier number t
YAt(t, count, i, a) ==
    (t - 1) * 36000
    + (IF count = 1 THEN 0 ELSE half((2 * (i - 1) - (count - 1)) * SpacingAt(a)))

\* attempt a of bucket number k puts a node within the gap of an earlier node
CollidesAt(k, a) ==
    LET rows == BucketRows(Buckets[k])
    IN  \E i \in DOMAIN rows : \E e \in PlacedBefore(k) :
            ~Separated(YAt(Buckets[k][1], Len(rows), i, a),
                       HeightOf(rows[i].DOMAIN_ID), YOf(e), HeightOf(e))

\* all 15 attempts of bucket number k collide
Exhausted(k) == \A a \in 1..15 : CollidesAt(k, a)

\* the attempt whose grid is kept: the first without a collision, or the 15th
AttemptKept(k) ==
    IF Exhausted(k) THEN 15
    ELSE CHOOSE a \in 1..15 : ~CollidesAt(k, a) /\ \A c \in 1..(a - 1) : CollidesAt(k, c)

\* C22 as stated: after a bucket is placed without exhausting the retry budget,
\* every node of the bucket is separated by more than the 0.15 gap (between the
\* vertical extents y +- height/2) from every node placed before in the same
\* x-group and from every other node of the same bucket.
C22_BucketSeparated ==
    FirstFigure =>
        \A k \in DOMAIN Buckets :
            ~Exhausted(k) =>
                LET rows == BucketRows(Buckets[k])
                IN  \A i \in DOMAIN rows :
                        LET n == rows[i].DOMAIN_ID
                        IN  /\ \A e \in PlacedBefore(k) :
                                   Separated(YOf(n), HeightOf(n), YOf(e), HeightOf(e))
                            /\ \A j \in DOMAIN rows \ {i} :
                                   Separated(YOf(n), HeightOf(n), YOf(rows[j].DOMAIN_ID),
                                             HeightOf(rows[j].DOMAIN_ID))

\* C23: the collision search of each (tier, x_group) bucket ends after at most
\* 15 attempts, the local spacing multiplied by 1.08 after each colliding
\* attempt; the grid of the first attempt without a collision is kept, and when
\* all 15 attempts collide the positions of the 15th are committed for every node
\* of the bucket, count as obstacles for the later tiers, and the build does
\* not fail.
C23_RetryBudget ==
    (builder = Constructed /\ fig.built) =>
        /\ fig.raised = NoError
        /\ \A k \in DOMAIN Buckets :
              LET rows == BucketRows(Buckets[k])
              IN  \A i \in DOMAIN rows :
                      /\ rows[i].DOMAIN_ID \in NodeSet(fig.G)
                      /\ YOf(rows[i].DOMAIN_ID) =
                             YAt(Buckets[k][1], Len(rows), i, AttemptKept(k))

\* a bucket of several nodes collided 15 times and was committed at the 15th
\* spacing, and a bucket of the next tier, placed against it, needed retries
C23_Witness ==
    /\ FirstFigure
    /\ \E k, m \in DOMAIN Buckets :
          /\ k < m
          /\ Len(BucketRows(Buckets[k])) >= 2
          /\ Exhausted(k)
          /\ YOf(BucketRows(Buckets[k])[1].DOMAIN_ID) = YAt(Buckets[k][1],
                                                          Len(BucketRows(Buckets[k])), 1, 15)
          /\ ~Exhausted(m)
          /\ AttemptKept(m) > 1

\* C28 as stated: in interactive mode, whenever sync_selection runs because the
\* user clicked a node with id N (no sentinel), its three outputs are (N, N, N),
\* whatever the other inputs still hold from earlier events, a relayoutData of
\* {"autosize": True} left by an earlier resize included.
C28_ClickSelectsNode ==
    (/\ ui.triggered = "clickData"
     /\ ui.mode = "interactive"
     /\ _extract_node_id(ui.click_data) # None)
    => /\ ui.selected_domain = ui.click_data
       /\ ui.drop_val = ui.click_data
       /\ ui.selected_node_store = ui.click_data

\* C29 as stated: in interactive mode, once a Reset click has cleared the
\* selection (selected-node-store None, selected-domain "All"), the selection
\* stays cleared through every later run of sync_selection that is not triggered
\* by a new node click (a relayout, a mode toggle back to interactive, a dropdown
\* change): the click data of an earlier click never re-selects a node.
C29_ResetStaysCleared ==
    (ui.since_reset /\ ui.mode = "interactive")
    => /\ ui.selected_node_store = None
       /\ ui.selected_domain = "All"
====
